---------------------------- MODULE Spec2Model ----------------------------
(***************************************************************************)
(* A model of SimilarityChecker: the Levenshtein primitive                 *)
(* (Modules/ScDistances.c), the windowed scorer and the file               *)
(* initialisation (EntryPoints/ScCommon.c), the cleansing pipeline         *)
(* (Modules/ScCleanseInput.c), the line indexer (Modules/ScStringMisc.c)   *)
(* and the all-pairs driver (EntryPoints/ScMain.c).                        *)
(*                                                                         *)
(* A byte is modelled as a one-character string, a buffer or a line as a   *)
(* sequence of bytes (1-based here, 0-based in C), a size_t array as a     *)
(* function from 0-based indices to values whose domain is the set of      *)
(* entries that have been written.                                         *)
(***************************************************************************)
EXTENDS Integers, Sequences, FiniteSets, TLC

VARIABLES
  pc,          \* control location of the specification being run
  Str1,        \* ScUnitTestLevenshtein: String1
  Str2,        \* ScUnitTestLevenshtein: String2
  Distance,    \* ScUnitTestLevenshtein: what ScLevenshteinDistance returned
  MatrixInit,  \* the array mScLevenshteinMatrixInit as the run has it
  ScratchRows, \* the MatrixScratch arrays of the calls of ScLevenshteinSwap
  Calls,       \* the calls of ScLevenshteinSwap under way, by pair
  File1,       \* scorer: the first cleansed file (sc_cleanse_file_t)
  File2,       \* scorer: the second cleansed file
  NumLinesSwap,\* scorer: the swap radius
  Score12,     \* scorer: ScLevenshteinSwap(File1, File2, NumLinesSwap)
  Score21,     \* scorer: ScLevenshteinSwap(File2, File1, NumLinesSwap)
  FileType,    \* cleansing: index of the profile in gScCleanseConfigs
  Input,       \* cleansing: the bytes read from the file
  Cleansed,    \* cleansing: the file after ScInitialiseCleanseFile
  Recleansed,  \* cleansing: the buffer after ScCleanseInput ran on it again
  NumFiles,    \* main: NumFiles
  File1Index,  \* main: File1Index of the emission loop
  File2Index,  \* main: File2Index of the emission loop
  DistIndex,   \* main: DistIndex
  EmitAssertOk,\* main: the assertion of line 233 has held so far
  argc,        \* main: argc
  Files,       \* main: the array Files, indexed from 0
  FileState,   \* main: where the per-file worker of each FileIndex is
  Failed,      \* main: the FileIndex values whose ScReadCleansedFile failed
  FilesResult, \* main: FilesResult
  FlagWriters, \* main: the FileIndex values whose worker wrote FilesResult
  FlagReads,   \* main: the values of FilesResult read so far, in order
  Ratings,     \* main: the array Ratings; its DOMAIN is the slots written
  PairLog,     \* main: the pair iterations run so far and the slot of each
  Output,      \* main: the lines written to stdout so far
  Heap         \* main: what has become of each file's buffer and line table

distVars == <<Str1, Str2, Distance, MatrixInit, ScratchRows, Calls>>

swapVars == <<File1, File2, NumLinesSwap, Score12, Score21>>

cleanseVars == <<FileType, Input, Cleansed, Recleansed>>

indexVars == <<NumFiles, File1Index, File2Index, DistIndex, EmitAssertOk>>

mainVars ==
  <<argc, Files, FileState, Failed, FilesResult, FlagWriters, FlagReads,
    Ratings, PairLog, Output, Heap>>

vars == <<pc, distVars, swapVars, cleanseVars, indexVars, mainVars>>

None == "none"

\* The variables of a part that the specification being run does not use.
DistIdle ==
  /\ Str1 = None /\ Str2 = None /\ Distance = None
  /\ MatrixInit = None /\ ScratchRows = None /\ Calls = None

SwapIdle ==
  /\ File1 = None /\ File2 = None /\ NumLinesSwap = None
  /\ Score12 = None /\ Score21 = None

CleanseIdle ==
  /\ FileType = None /\ Input = None /\ Cleansed = None /\ Recleansed = None

IndexIdle ==
  /\ NumFiles = None /\ File1Index = None /\ File2Index = None
  /\ DistIndex = None /\ EmitAssertOk = None

MainIdle ==
  /\ argc = None /\ Files = None /\ FileState = None /\ Failed = None
  /\ FilesResult = None /\ FlagWriters = None /\ FlagReads = None
  /\ Ratings = None /\ PairLog = None /\ Output = None /\ Heap = None

(***************************************************************************)
(* Bounds of the model.                                                    *)
(***************************************************************************)
\* Longest string drawn for the two arguments of ScLevenshteinDistance.
MaxStrLen == 3

\* Longest cleansed buffer of a file handed to ScLevenshteinSwap.
MaxFileLen == 4

\* Largest swap radius handed to ScLevenshteinSwap.
MaxRadius == 2

(***************************************************************************)
(* Include/ScSafeInt.h, EntryPoints/ScCommon.h: macros.                    *)
(***************************************************************************)
SC_MIN(A, B) == IF A < B THEN A ELSE B

SC_MAX(A, B) == IF A > B THEN A ELSE B

SC_MAX_LINE_LENGTH == 512

(***************************************************************************)
(* Sequences of bytes up to a length.                                      *)
(***************************************************************************)
SeqsUpTo(S, n) == UNION {[1..k -> S] : k \in 0..n}

NonEmptySeqsUpTo(S, n) == UNION {[1..k -> S] : k \in 1..n}

(***************************************************************************)
(* EntryPoints/ScCommon.c: the shared initial row.                         *)
(* ScLevenshteinSwapInitialise fills entry k with k + 1.                   *)
(***************************************************************************)
ScLevenshteinSwapInitialise == [k \in 0..(SC_MAX_LINE_LENGTH - 1) |-> k + 1]

mScLevenshteinMatrixInit == ScLevenshteinSwapInitialise

(***************************************************************************)
(* Modules/ScDistances.c: ScLevenshteinDistance.                           *)
(*                                                                         *)
(* The state of the two loops is the record                                *)
(*   Top        the array MatrixTop points to while it is the caller's row *)
(*   Aliased    MatrixTop = MatrixScratch (set at the end of each row)     *)
(*   Scratch    the caller's scratch row (entries written so far)          *)
(*   RowIndexMinus1, ColumnIndexMinus1, TopLeftValue, LeftValue            *)
(*   AssertOk   no assert(CurrentValue < SC_MAX(...)) has failed           *)
(***************************************************************************)
LevTopValue(st, Col) == IF st.Aliased THEN st.Scratch[Col] ELSE st.Top[Col]

\* Mutant: the substitution is charged even when the bytes are equal.
LevDiagonal_AlwaysCharged(TopLeftValue, Differ) == TopLeftValue + 1

\* Lines 69-80: the diagonal transition, one more when the bytes differ.
LevDiagonal(TopLeftValue, Differ) ==
  IF Differ THEN TopLeftValue + 1 ELSE TopLeftValue

\* Mutant: the diagonal is taken only when it is strictly better.
LevPreferDiagonal_Strict(TopLeftValue, CurrentValue) ==
  TopLeftValue < CurrentValue

\* Line 68: the diagonal is preferred when it is not worse.
LevPreferDiagonal(TopLeftValue, CurrentValue) == TopLeftValue <= CurrentValue

\* The body of the inner loop and its increment, lines 53-93.
LevCell(st, S1, S2) ==
  LET Col      == st.ColumnIndexMinus1
      Char1    == S1[st.RowIndexMinus1 + 1]
      Char2    == S2[Col + 1]
      TopValue == LevTopValue(st, Col)
      Min      == SC_MIN(TopValue, st.LeftValue)
      Diagonal == LevPreferDiagonal(st.TopLeftValue, Min)
      CurrentValue ==
        IF Diagonal
          THEN LevDiagonal(st.TopLeftValue, Char1 # Char2)
          ELSE Min + 1
      Asserted ==
        (Diagonal /\ Char1 # Char2)
          => st.TopLeftValue < SC_MAX(Len(S1), Len(S2))
  IN  [st EXCEPT !.Scratch           = (Col :> CurrentValue) @@ st.Scratch,
                 !.LeftValue         = CurrentValue,
                 !.TopLeftValue      = TopValue,
                 !.AssertOk          = st.AssertOk /\ Asserted,
                 !.ColumnIndexMinus1 = Col + 1]

\* The inner loop over ColumnIndexMinus1, lines 50-94.
RECURSIVE LevColumns(_, _, _)
LevColumns(st, S1, S2) ==
  IF st.ColumnIndexMinus1 < Len(S2)
    THEN LevColumns(LevCell(st, S1, S2), S1, S2)
    ELSE st

\* One pass of the outer loop and its increment, lines 45-98.
LevRow(st, S1, S2) ==
  LET start == [st EXCEPT !.TopLeftValue      = st.RowIndexMinus1,
                          !.LeftValue         = st.RowIndexMinus1 + 1,
                          !.ColumnIndexMinus1 = 0]
      done  == LevColumns(start, S1, S2)
  IN  [done EXCEPT !.Aliased = TRUE, !.RowIndexMinus1 = st.RowIndexMinus1 + 1]

\* The outer loop over RowIndexMinus1, lines 30-99.
RECURSIVE LevRows(_, _, _)
LevRows(st, S1, S2) ==
  IF st.RowIndexMinus1 < Len(S1)
    THEN LevRows(LevRow(st, S1, S2), S1, S2)
    ELSE st

\* The whole call: the loops' final state.
LevRun(MatrixTop, MatrixScratch, S1, S2) ==
  LevRows([Top |-> MatrixTop, Aliased |-> FALSE, Scratch |-> MatrixScratch,
           RowIndexMinus1 |-> 0, ColumnIndexMinus1 |-> 0,
           TopLeftValue |-> 0, LeftValue |-> 0, AssertOk |-> TRUE],
          S1, S2)

\* The value returned at line 103, the scratch row left behind, and whether
\* every in-loop assertion held.
LevResult(st, Str2Length) ==
  [Value    |-> LevTopValue(st, Str2Length - 1),
   Scratch  |-> st.Scratch,
   AssertOk |-> st.AssertOk]

ScLevenshteinDistance(MatrixTop, MatrixScratch, S1, S2) ==
  LevResult(LevRun(MatrixTop, MatrixScratch, S1, S2), Len(S2))

\* A scratch row nothing has been written to.
EmptyRow == [k \in {} |-> 0]

(***************************************************************************)
(* EntryPoints/ScUnitTesting.c: the inputs of the unit test, and the       *)
(* strings over a two-letter alphabet up to MaxStrLen.                     *)
(***************************************************************************)
UnitTests ==
  { << <<"T","h","i","s"," ","i","s"," ","a"," ","t","e","s","t"," ",
         "s","t","r","i","n","g">>, <<"t","e","s","t">> >>,
    << <<"T","e","s","t">>,     <<"T","o","a","s","t">> >>,
    << <<"H","o","u","s","e">>, <<"M","o","u","s","e">> >>,
    << <<"C","l","a","u","s">>, <<"c","l","a","u","s","e">> >>,
    << <<"1","2","3","4">>,     <<"5","6","7","8">> >> }

DistAlphabet == {"a", "b"}

DistStrings == NonEmptySeqsUpTo(DistAlphabet, MaxStrLen)

DistInputs == UnitTests \cup (DistStrings \X DistStrings)

DistInit ==
  /\ pc = "dist_call"
  /\ \E in \in DistInputs : Str1 = in[1] /\ Str2 = in[2]
  /\ Distance = None
  /\ MatrixInit = None
  /\ ScratchRows = None
  /\ Calls = None
  /\ SwapIdle
  /\ CleanseIdle
  /\ IndexIdle
  /\ MainIdle

\* ScUnitTestLevenshtein, lines 42-49: the call with the shared initial row.
ScUnitTestLevenshtein ==
  /\ pc = "dist_call"
  /\ Distance' = ScLevenshteinDistance(mScLevenshteinMatrixInit, EmptyRow,
                                       Str1, Str2)
  /\ pc' = "dist_done"
  /\ UNCHANGED <<Str1, Str2, MatrixInit, ScratchRows, Calls, swapVars,
                 cleanseVars, indexVars, mainVars>>

DistNext == ScUnitTestLevenshtein

DistSpec == DistInit /\ [][DistNext]_vars

(***************************************************************************)
(* The classic Levenshtein distance, by its defining recurrence on the     *)
(* two strings: the reference the primitive is compared with.              *)
(***************************************************************************)
Min3(a, b, c) == SC_MIN(SC_MIN(a, b), c)

RECURSIVE Levenshtein(_, _)
Levenshtein(s, t) ==
  IF s = <<>> THEN Len(t)
  ELSE IF t = <<>> THEN Len(s)
  ELSE Min3(Levenshtein(Tail(s), t) + 1,
            Levenshtein(s, Tail(t)) + 1,
            Levenshtein(Tail(s), Tail(t))
              + (IF Head(s) = Head(t) THEN 0 ELSE 1))

\* The distances EntryPoints/ScUnitTesting.c expects, lines 71-80.
ExpectedDistance(s, t) ==
  CASE s = <<"T","e","s","t">>     /\ t = <<"T","o","a","s","t">>     -> 2
    [] s = <<"H","o","u","s","e">> /\ t = <<"M","o","u","s","e">>     -> 1
    [] s = <<"C","l","a","u","s">> /\ t = <<"c","l","a","u","s","e">> -> 2
    [] s = <<"1","2","3","4">>     /\ t = <<"5","6","7","8">>         -> 4
    [] Len(s) = 21                 /\ t = <<"t","e","s","t">>         -> 17
    [] OTHER -> Levenshtein(s, t)

\* C2: called with the initial row 1..N, ScLevenshteinDistance returns the
\* classic insert/delete/substitute distance of its two non-empty strings,
\* and the five distances the unit test expects (2, 1, 2, 4 and 17).
C2_ClassicDistance ==
  pc = "dist_done" =>
    /\ Distance.Value = Levenshtein(Str1, Str2)
    /\ Distance.Value = ExpectedDistance(Str1, Str2)

C2_Witness ==
  /\ pc = "dist_done"
  /\ Str1 = <<"C","l","a","u","s">>
  /\ Str2 = <<"c","l","a","u","s","e">>
  /\ Distance.Value = 2

\* C3: the distance is 0 exactly for byte-identical strings, it never
\* exceeds the longer length, and no in-loop assertion
\* CurrentValue < SC_MAX(Str1Length, Str2Length) fails.
C3_ZeroIffEqualAndBounded ==
  pc = "dist_done" =>
    /\ (Distance.Value = 0) <=> (Str1 = Str2)
    /\ Distance.Value <= SC_MAX(Len(Str1), Len(Str2))
    /\ Distance.AssertOk

\* A call whose every cell substitutes: the distance reaches the bound.
C3_Witness ==
  /\ pc = "dist_done"
  /\ Str1 = <<"1","2","3","4">>
  /\ Distance.Value = SC_MAX(Len(Str1), Len(Str2))
  /\ Distance.AssertOk

(***************************************************************************)
(* Modules/ScStringMisc.c: ScStrGetLineInfo, the line indexer.             *)
(* A line's Start is its 0-based offset into the buffer.                   *)
(***************************************************************************)
NL == "\n"

\* The first loop, lines 41-49: one line more than there are new lines.
RECURSIVE CountLines(_, _, _, _)
CountLines(String, StringLength, CharIndex, NumLines) ==
  IF CharIndex < StringLength
    THEN CountLines(String, StringLength, CharIndex + 1,
                    IF String[CharIndex + 1] = NL THEN NumLines + 1
                                                  ELSE NumLines)
    ELSE NumLines

\* The second loop, lines 83-106. st holds Lines (the spans closed so far),
\* MaxLineLength, LineOffset and CharIndex.
RECURSIVE FillLines(_, _, _)
FillLines(String, StringLength, st) ==
  IF st.CharIndex < StringLength
    THEN FillLines(String, StringLength,
           IF String[st.CharIndex + 1] = NL
             THEN LET Length == st.CharIndex - st.LineOffset
                  IN  [Lines |-> Append(st.Lines, [Start  |-> st.LineOffset,
                                                   Length |-> Length]),
                       MaxLineLength |-> SC_MAX(st.MaxLineLength, Length),
                       LineOffset    |-> st.CharIndex + 1,
                       CharIndex     |-> st.CharIndex + 1]
             ELSE [st EXCEPT !.CharIndex = st.CharIndex + 1])
    ELSE st

\* Variant: the length of the last line does not count for MaxLineLength.
LastLine_NoMax(StringLength, NumLines, st) ==
  [NumLines      |-> NumLines,
   MaxLineLength |-> st.MaxLineLength,
   Lines         |-> Append(st.Lines,
                            [Start  |-> st.LineOffset,
                             Length |-> StringLength - st.LineOffset])]

\* Lines 108-119: the last line ends at the end of the buffer.
LastLine(StringLength, NumLines, st) ==
  [NumLines      |-> NumLines,
   MaxLineLength |-> SC_MAX(st.MaxLineLength, StringLength - st.LineOffset),
   Lines         |-> Append(st.Lines,
                            [Start  |-> st.LineOffset,
                             Length |-> StringLength - st.LineOffset])]

\* The table returned when the size computation and the allocation succeed.
ScStrGetLineInfo(String, StringLength) ==
  LastLine(StringLength,
           CountLines(String, StringLength, 0, 1),
           FillLines(String, StringLength,
                     [Lines |-> <<>>, MaxLineLength |-> 0,
                      LineOffset |-> 0, CharIndex |-> 0]))

(***************************************************************************)
(* EntryPoints/ScCommon.h: sc_cleanse_file_t, for a file whose cleansed    *)
(* buffer has been indexed (ScInitialiseCleanseFile returned true).        *)
(***************************************************************************)
CleansedFile(Buffer) ==
  [Buffer    |-> Buffer,
   Length    |-> Len(Buffer),
   LinesInfo |-> ScStrGetLineInfo(Buffer, Len(Buffer))]

\* The bytes of line Index (0-based): Lines[Index].Start .. + Length.
LineBytes(File, Info, Index) ==
  SubSeq(File.Buffer, Info.Lines[Index + 1].Start + 1,
         Info.Lines[Index + 1].Start + Info.Lines[Index + 1].Length)

(***************************************************************************)
(* size_t in the build modelled has 64 bits (the build ScMain.c gives      *)
(* SC_MAX_NUM_FILES = INT32_MAX).  A size_t value is kept by its           *)
(* representative modulo 2^64 nearest to 0: a negative integer -k stands   *)
(* for 2^64 - k, so SIZE_MAX is -1, and + and - on representatives are     *)
(* the wrapping + and - of C.                                              *)
(***************************************************************************)
SIZE_MAX == -1

\* A < B on size_t.
SizeLess(A, B) ==
  IF (A >= 0) = (B >= 0) THEN A < B ELSE A >= 0

(***************************************************************************)
(* Include/ScSafeInt.h: ScSafeAddSize stores the wrapped sum and returns   *)
(* whether the sum overflowed size_t.                                      *)
(***************************************************************************)
\* Variant: a sum of 2^2 or more is reported as an overflow.
ScSafeAddSize_TwoBits(A, B) ==
  [Overflow |-> IF A >= 0 /\ B >= 0 THEN A + B >= 2^2
                ELSE IF A < 0 /\ B < 0 THEN TRUE
                ELSE A + B >= 0,
   Value    |-> A + B]

ScSafeAddSize(A, B) ==
  [Overflow |-> IF A >= 0 /\ B >= 0 THEN FALSE
                ELSE IF A < 0 /\ B < 0 THEN TRUE
                ELSE A + B >= 0,
   Value    |-> A + B]

(***************************************************************************)
(* EntryPoints/ScCommon.c: ScLevenshteinSwap.                              *)
(*                                                                         *)
(* A double that is a quotient of two sizes is kept as the pair of its     *)
(* numerator and denominator: for sizes up to SC_MAX_LINE_LENGTH two       *)
(* different quotients are different doubles, in the same order.  DBL_MAX  *)
(* is above every quotient formed (a distance is at most the match         *)
(* length).                                                                *)
(***************************************************************************)
DBL_MAX == [Max |-> TRUE, Num |-> 0, Den |-> 1]

Quotient(Num, Den) == [Max |-> FALSE, Num |-> Num, Den |-> Den]

\* x > y on doubles.
DoubleGreater(x, y) ==
  IF y.Max THEN FALSE
  ELSE IF x.Max THEN TRUE
  ELSE x.Num * y.Den > y.Num * x.Den

\* Lines 64-72: the file with fewer lines is the anchor; on a tie File1 is.
SwapOrder(F1, F2) ==
  IF F1.LinesInfo.NumLines > F2.LinesInfo.NumLines
    THEN [Anchor |-> F2, Target |-> F1]
    ELSE [Anchor |-> F1, Target |-> F2]

\* Lines 107-112: the window [StartIndex, TopIndex) of target lines.
SwapStartIndex(Line1Index, Radius) ==
  IF SizeLess(Radius, Line1Index) THEN Line1Index - Radius ELSE 0

\* Mutant: the window ends at Line1Index + Radius, its last line left out.
SwapTopIndex_Exclusive(Line1Index, NumLines2, Radius) ==
  IF SizeLess(Radius, NumLines2 - Line1Index)
    THEN Line1Index + Radius
    ELSE NumLines2

SwapTopIndex(Line1Index, NumLines2, Radius) ==
  IF SizeLess(Radius, NumLines2 - Line1Index)
    THEN Line1Index + Radius + 1
    ELSE NumLines2

\* Variant: a candidate as good as the best one replaces it too.
SwapBetter_OrEqual(BestScore, CurLineScore) ==
  ~DoubleGreater(CurLineScore, BestScore)

\* Line 152: a candidate replaces the best one only when strictly better.
SwapBetter(BestScore, CurLineScore) == DoubleGreater(BestScore, CurLineScore)

\* Lines 143-148: the candidate's normalised cost, 0 for distance 0.
CurLineScore(Dist, MatchLengthTmp) ==
  IF Dist = 0 THEN Quotient(0, 1) ELSE Quotient(Dist, MatchLengthTmp)

\* Variant: a better candidate leaves MatchLength as it was.
SwapUpdate_KeepsLength(st, Call, MatchLengthTmp, NumLines2) ==
  [Line2Index    |-> st.Line2Index + 1,
   BestScore     |-> IF DoubleGreater(st.BestScore,
                                      CurLineScore(Call.Value, MatchLengthTmp))
                       THEN CurLineScore(Call.Value, MatchLengthTmp)
                       ELSE st.BestScore,
   BestMatch     |-> IF DoubleGreater(st.BestScore,
                                      CurLineScore(Call.Value, MatchLengthTmp))
                       THEN Call.Value
                       ELSE st.BestMatch,
   MatchLength   |-> st.MatchLength,
   MatrixScratch |-> Call.Scratch,
   AssertOk      |-> st.AssertOk /\ Call.AssertOk]

\* Lines 139-156 and the loop increment: the best candidate is updated
\* with the distance the call returned.  st holds Line2Index, BestScore,
\* BestMatch, MatchLength, MatrixScratch and AssertOk.
SwapUpdate(st, Call, MatchLengthTmp, NumLines2) ==
  IF SwapBetter(st.BestScore, CurLineScore(Call.Value, MatchLengthTmp))
    THEN [Line2Index    |-> st.Line2Index + 1,
          BestScore     |-> CurLineScore(Call.Value, MatchLengthTmp),
          BestMatch     |-> Call.Value,
          MatchLength   |-> MatchLengthTmp,
          MatrixScratch |-> Call.Scratch,
          AssertOk      |-> /\ st.AssertOk
                            /\ Call.AssertOk
                            /\ st.Line2Index < NumLines2]
    ELSE [st EXCEPT !.Line2Index    = st.Line2Index + 1,
                    !.MatrixScratch = Call.Scratch,
                    !.AssertOk      = /\ st.AssertOk
                                      /\ Call.AssertOk
                                      /\ st.Line2Index < NumLines2]

\* Lines 130-142: the distance of the two lines and their match length.
SwapCompare(st, Line1, Line2, NumLines2) ==
  SwapUpdate(st,
             ScLevenshteinDistance(mScLevenshteinMatrixInit, st.MatrixScratch,
                                   Line1, Line2),
             SC_MAX(Len(Line1), Len(Line2)),
             NumLines2)

\* The body of the inner loop, lines 119-156.
SwapCandidate(st, Anchor, Target, Line1Index) ==
  SwapCompare(st,
              LineBytes(Anchor, Anchor.LinesInfo, Line1Index),
              LineBytes(Target, Target.LinesInfo, st.Line2Index),
              Target.LinesInfo.NumLines)

\* The inner loop over Line2Index, line 118.
RECURSIVE SwapCandidates(_, _, _, _, _)
SwapCandidates(st, Anchor, Target, Line1Index, TopIndex) ==
  IF st.Line2Index < TopIndex
    THEN SwapCandidates(SwapCandidate(st, Anchor, Target, Line1Index),
                        Anchor, Target, Line1Index, TopIndex)
    ELSE st

\* Lines 158-171: the best match of the line is added to the totals.  acc
\* holds Line1Index, TotalDiff, TotalLength, MatrixScratch, Overflow (the
\* early return of line 164) and AssertOk.
SwapAccumulate(acc, best) ==
  IF ScSafeAddSize(acc.TotalLength, best.MatchLength).Overflow
    THEN [acc EXCEPT !.Overflow = TRUE, !.AssertOk = best.AssertOk]
    ELSE [Line1Index    |-> acc.Line1Index + 1,
          TotalDiff     |-> acc.TotalDiff + best.BestMatch,
          TotalLength   |-> ScSafeAddSize(acc.TotalLength,
                                          best.MatchLength).Value,
          MatrixScratch |-> best.MatrixScratch,
          Overflow      |-> FALSE,
          AssertOk      |-> /\ best.AssertOk
                            /\ ~SizeLess(acc.TotalDiff + best.BestMatch,
                                         best.BestMatch)]

\* One pass of the outer loop, lines 87-171.
SwapLine(acc, Anchor, Target, Radius) ==
  SwapAccumulate(acc,
    SwapCandidates(
      [Line2Index    |-> SwapStartIndex(acc.Line1Index, Radius),
       BestScore     |-> DBL_MAX,
       BestMatch     |-> SIZE_MAX,
       MatchLength   |-> 1,
       MatrixScratch |-> acc.MatrixScratch,
       AssertOk      |-> /\ acc.AssertOk
                         /\ Target.LinesInfo.NumLines
                              >= Anchor.LinesInfo.NumLines],
      Anchor, Target, acc.Line1Index,
      SwapTopIndex(acc.Line1Index, Target.LinesInfo.NumLines, Radius)))

\* The outer loop over Line1Index, lines 82-86.
RECURSIVE SwapLines(_, _, _, _)
SwapLines(acc, Anchor, Target, Radius) ==
  IF ~acc.Overflow /\ acc.Line1Index < Anchor.LinesInfo.NumLines
    THEN SwapLines(SwapLine(acc, Anchor, Target, Radius),
                   Anchor, Target, Radius)
    ELSE acc

\* Lines 164 and 174.  Infinity: the sentinel was returned; otherwise the
\* score is 1 - TotalDiff / TotalLength.
SwapScore(acc) ==
  [Infinity    |-> acc.Overflow,
   TotalDiff   |-> acc.TotalDiff,
   TotalLength |-> acc.TotalLength,
   AssertOk    |-> acc.AssertOk]

\* Lines 76-86: the totals start at 0, the scratch row is the call's own.
SwapRun(Anchor, Target, Radius) ==
  SwapLines([Line1Index |-> 0, TotalDiff |-> 0, TotalLength |-> 0,
             MatrixScratch |-> EmptyRow, Overflow |-> FALSE,
             AssertOk |-> TRUE],
            Anchor, Target, Radius)

ScLevenshteinSwap(F1, F2, Radius) ==
  SwapScore(SwapRun(SwapOrder(F1, F2).Anchor, SwapOrder(F1, F2).Target,
                    Radius))

(***************************************************************************)
(* The scorer on pairs of cleansed files: what ScMain.c and                *)
(* ScLlvmFuzzing.c hand to ScLevenshteinSwap.  A cleansed file that passed *)
(* ScInitialiseCleanseFile is not empty and has no empty line.             *)
(***************************************************************************)
IsCanonical(b) ==
  /\ b # <<>>
  /\ b[1] # NL
  /\ b[Len(b)] # NL
  /\ \A i \in 1..(Len(b) - 1) : ~(b[i] = NL /\ b[i + 1] = NL)

SwapAlphabet == {"a", "b", NL}

\* Files with two candidates of the same normalised cost and different
\* distances for an anchor line "aa": 1 / 2 and 2 / 4.
TiedBuffers ==
  { <<"a","b",NL,"a","a","a","a">>, <<"a","a","a","a",NL,"a","b">> }

SwapBuffers ==
  {b \in NonEmptySeqsUpTo(SwapAlphabet, MaxFileLen) : IsCanonical(b)}
    \cup TiedBuffers

\* The radii: the small ones, and the largest a size_t holds
\* (ScLlvmFuzzing.c lines 47-54 hands over a radius above every file).
SwapRadii == (0..MaxRadius) \cup {SIZE_MAX}

SwapInit ==
  /\ pc = "swap_forward"
  /\ \E b1 \in SwapBuffers, b2 \in SwapBuffers :
       /\ File1 = CleansedFile(b1)
       /\ File2 = CleansedFile(b2)
  /\ NumLinesSwap \in SwapRadii
  /\ Score12 = None
  /\ Score21 = None
  /\ DistIdle
  /\ CleanseIdle
  /\ IndexIdle
  /\ MainIdle

\* ScMain.c lines 186-190: the pair is scored in argument order.
ScoreForward ==
  /\ pc = "swap_forward"
  /\ Score12' = ScLevenshteinSwap(File1, File2, NumLinesSwap)
  /\ pc' = "swap_backward"
  /\ UNCHANGED <<File1, File2, NumLinesSwap, Score21, distVars, cleanseVars,
                 indexVars, mainVars>>

\* The same pair scored with the two arguments exchanged.
ScoreBackward ==
  /\ pc = "swap_backward"
  /\ Score21' = ScLevenshteinSwap(File2, File1, NumLinesSwap)
  /\ pc' = "swap_done"
  /\ UNCHANGED <<File1, File2, NumLinesSwap, Score12, distVars, cleanseVars,
                 indexVars, mainVars>>

SwapNext == ScoreForward \/ ScoreBackward

SwapSpec == SwapInit /\ [][SwapNext]_vars

\* Two results of ScLevenshteinSwap are the same double.
SameScore(x, y) ==
  /\ x.Infinity = y.Infinity
  /\ ~x.Infinity => x.TotalDiff * y.TotalLength = y.TotalDiff * x.TotalLength

\* C1: scoring is order-independent: ScLevenshteinSwap(A, B, r) and
\* ScLevenshteinSwap(B, A, r) return the same score for every pair of
\* cleansed files and every radius.
C1_OrderIndependent ==
  pc = "swap_done" => SameScore(Score12, Score21)

\* C4: a cleansed file scored against a byte-identical copy of itself gets
\* total distance 0, that is score 1, for every radius.
C4_SelfScoreIsOne ==
  (pc \in {"swap_backward", "swap_done"} /\ File1.Buffer = File2.Buffer) =>
    /\ ~Score12.Infinity
    /\ Score12.TotalDiff = 0
    /\ Score12.TotalLength > 0

\* A file of two different lines scored against its copy with a radius that
\* puts both lines in every window.
C4_Witness ==
  /\ pc = "swap_done"
  /\ File1.Buffer = <<"a", NL, "b">>
  /\ File2.Buffer = File1.Buffer
  /\ NumLinesSwap = 1
  /\ Score12.TotalDiff = 0
  /\ Score12.TotalLength = 2

(***************************************************************************)
(* The cleansing profiles, src/CleanseConfigs.  A string is the sequence   *)
(* of its bytes; sc_lenghted_string_t is such a sequence with its Len.     *)
(***************************************************************************)
Chars(s) == [i \in 1..Len(s) |-> SubSeq(s, i, i)]

\* The bytes the third pass names that a TLA+ string cannot escape.
VT == "<VT>"
TAB == "\t"
CR == "\r"
SPACE == " "

mScGeneraliseC ==
  << [Generaliser  |-> Chars(""),
      Generalisees |-> << Chars("static"), Chars("const"), Chars("volatile"),
                          Chars("restrict"), Chars("unsigned"),
                          Chars("signed") >>],
     [Generaliser  |-> Chars("int"),
      Generalisees |-> << Chars("char"), Chars("short"), Chars("long"),
                          Chars("uint64_t"), Chars("int64_t"),
                          Chars("uint32_t"), Chars("int32_t"),
                          Chars("uint16_t"), Chars("int16_t"),
                          Chars("uint8_t"), Chars("int8_t"),
                          Chars("size_t"), Chars("uintptr_t"),
                          Chars("float"), Chars("double") >>] >>

\* Variant: "//" is no line drop prefix.
mScCleanseConfigC_NoLineComment ==
  [FileExts          |-> <<"c", "cpp", "h", "hpp">>,
   MultiCommentStart |-> Chars("/*"),
   MultiCommentEnd   |-> Chars("*/"),
   LineDropPrefixes  |-> << Chars("#i"), Chars("#e") >>,
   NewLineChars      |-> << ";", "{", "}", "?", ":" >>,
   Generalises       |-> mScGeneraliseC]

mScCleanseConfigC ==
  [FileExts          |-> <<"c", "cpp", "h", "hpp">>,
   MultiCommentStart |-> Chars("/*"),
   MultiCommentEnd   |-> Chars("*/"),
   LineDropPrefixes  |-> << Chars("//"), Chars("#i"), Chars("#e") >>,
   NewLineChars      |-> << ";", "{", "}", "?", ":" >>,
   Generalises       |-> mScGeneraliseC]

mScGeneraliseJava ==
  << [Generaliser  |-> Chars(""),
      Generalisees |-> << Chars("static"), Chars("final"), Chars("volatile"),
                          Chars("synchronized"), Chars("public"),
                          Chars("protected"), Chars("private") >>],
     [Generaliser  |-> Chars("int"),
      Generalisees |-> << Chars("byte"), Chars("short"), Chars("long"),
                          Chars("float"), Chars("double") >>] >>

mScCleanseConfigJava ==
  [FileExts          |-> <<"java">>,
   MultiCommentStart |-> Chars("/*"),
   MultiCommentEnd   |-> Chars("*/"),
   LineDropPrefixes  |-> << Chars("//") >>,
   NewLineChars      |-> << ";", "{", "}", "?", ":" >>,
   Generalises       |-> mScGeneraliseJava]

mScGeneraliseFSharp ==
  << [Generaliser  |-> Chars(""),
      Generalisees |-> << Chars("override"), Chars("public"),
                          Chars("internal"), Chars("private") >>],
     [Generaliser  |-> Chars("int"),
      Generalisees |-> << Chars("sbyte"), Chars("byte"), Chars("uint16"),
                          Chars("int16"), Chars("uint32"), Chars("int64"),
                          Chars("uint64"), Chars("unativeint"),
                          Chars("nativeint"), Chars("decimal"),
                          Chars("float32"), Chars("float"), Chars("single"),
                          Chars("double") >>] >>

mScCleanseConfigFSharp ==
  [FileExts          |-> <<"fs", "fsi", "fsx", "fsscript">>,
   MultiCommentStart |-> Chars("(*"),
   MultiCommentEnd   |-> Chars("*)"),
   LineDropPrefixes  |-> << Chars("//") >>,
   NewLineChars      |-> << >>,
   Generalises       |-> mScGeneraliseFSharp]

\* Variant: the unknown profile takes ';' for a new line and drops the
\* lines that start with "//".
mScCleanseConfigUnknown_Rules ==
  [FileExts          |-> << >>,
   MultiCommentStart |-> << >>,
   MultiCommentEnd   |-> << >>,
   LineDropPrefixes  |-> << Chars("//") >>,
   NewLineChars      |-> << ";" >>,
   Generalises       |-> << >>]

mScCleanseConfigUnknown ==
  [FileExts          |-> << >>,
   MultiCommentStart |-> << >>,
   MultiCommentEnd   |-> << >>,
   LineDropPrefixes  |-> << >>,
   NewLineChars      |-> << >>,
   Generalises       |-> << >>]

ScCleanseConfigTypeMin == 0
ScCleanseConfigTypeMax == 3

\* Indexed by sc_cleanse_config_type_t: C, Java, FSharp, Max.
gScCleanseConfigs ==
  [t \in ScCleanseConfigTypeMin..ScCleanseConfigTypeMax |->
     CASE t = 0 -> mScCleanseConfigC
       [] t = 1 -> mScCleanseConfigJava
       [] t = 2 -> mScCleanseConfigFSharp
       [] t = 3 -> mScCleanseConfigUnknown]

(***************************************************************************)
(* src/Modules/ScStringMisc.c and ScCleanseInput.c.  A char pointer into   *)
(* the buffer is the 0-based offset Pos of the byte it points to; the      *)
(* buffer is a 1-based sequence, so *Buffer is Buffer[Pos + 1].            *)
(***************************************************************************)
\* 0 when the PrefixLength bytes at String + Pos are those of Prefix, and a
\* value other than 0 otherwise; strncmp's sign is never looked at.
ScStrnPrefix(String, Pos, Prefix, StringLength) ==
  IF Len(Prefix) > StringLength
    THEN 1
    ELSE IF \A k \in 1..Len(Prefix) : String[Pos + k] = Prefix[k]
           THEN 0
           ELSE 1

\* Count bytes from Pos on become spaces.
Blank(Buffer, Pos, Count) ==
  [k \in 1..Len(Buffer) |->
     IF k > Pos /\ k <= Pos + Count THEN SPACE ELSE Buffer[k]]

\* Variant: the new line that ends the dropped line is made a space too.
RECURSIVE ScCleanseDropLine_TakesNewLine(_)
ScCleanseDropLine_TakesNewLine(st) ==
  IF st.BufferLength > 0
    THEN IF st.Buffer[st.Pos + 1] # NL
           THEN ScCleanseDropLine_TakesNewLine(
                  [st EXCEPT !.Buffer = Blank(st.Buffer, st.Pos, 1),
                             !.Pos = st.Pos + 1,
                             !.BufferLength = st.BufferLength - 1])
           ELSE [st EXCEPT !.Buffer = Blank(st.Buffer, st.Pos, 1)]
    ELSE st

\* st holds Buffer, Pos, BufferLength and AssertOk.
RECURSIVE ScCleanseDropLine(_)
ScCleanseDropLine(st) ==
  IF st.BufferLength > 0 /\ st.Buffer[st.Pos + 1] # NL
    THEN ScCleanseDropLine(
           [st EXCEPT !.Buffer = Blank(st.Buffer, st.Pos, 1),
                      !.Pos = st.Pos + 1,
                      !.BufferLength = st.BufferLength - 1])
    ELSE st

RECURSIVE ScCleanseMultiComment(_, _)
ScCleanseMultiComment(st, CommentEnd) ==
  IF st.BufferLength > 0
    THEN IF ScStrnPrefix(st.Buffer, st.Pos, CommentEnd, st.BufferLength) = 0
           THEN [st EXCEPT !.Buffer = Blank(st.Buffer, st.Pos,
                                            Len(CommentEnd)),
                           !.Pos = st.Pos + Len(CommentEnd),
                           !.BufferLength = st.BufferLength - Len(CommentEnd)]
           ELSE ScCleanseMultiComment(
                  [st EXCEPT !.Buffer = Blank(st.Buffer, st.Pos, 1),
                             !.Pos = st.Pos + 1,
                             !.BufferLength = st.BufferLength - 1],
                  CommentEnd)
    ELSE st

\* Lines 214-226: some line drop prefix starts at Pos.
DropPrefixed(st, Config) ==
  \E DropIndex \in 1..Len(Config.LineDropPrefixes) :
    ScStrnPrefix(st.Buffer, st.Pos, Config.LineDropPrefixes[DropIndex],
                 st.BufferLength) = 0

\* Lines 232-242: a multi line comment starts at Pos.
CommentPrefixed(st, Config) ==
  /\ ScStrnPrefix(st.Buffer, st.Pos, Config.MultiCommentStart,
                  st.BufferLength) = 0
  /\ Len(Config.MultiCommentStart) > 0

\* Lines 247-250: the comment start is deleted first.
CommentStartBlanked(st, Config) ==
  [st EXCEPT !.Buffer = Blank(st.Buffer, st.Pos,
                              Len(Config.MultiCommentStart)),
             !.Pos = st.Pos + Len(Config.MultiCommentStart),
             !.BufferLength = st.BufferLength
                                - Len(Config.MultiCommentStart)]

\* One pass of the while loop, lines 209-269, without its assertion.
LinesStep(st, Config) ==
  IF DropPrefixed(st, Config)
    THEN ScCleanseDropLine(st)
    ELSE IF CommentPrefixed(st, Config)
           THEN ScCleanseMultiComment(CommentStartBlanked(st, Config),
                                      Config.MultiCommentEnd)
           ELSE [st EXCEPT !.Pos = st.Pos + 1,
                           !.BufferLength = st.BufferLength - 1]

\* Line 268: Buffer + BufferLength == BufferTop.
LinesAsserted(st, BufferTop) ==
  [st EXCEPT !.AssertOk = st.AssertOk /\ st.Pos + st.BufferLength = BufferTop]

RECURSIVE LinesLoop(_, _, _)
LinesLoop(st, Config, BufferTop) ==
  IF st.Pos < BufferTop /\ st.AssertOk
    THEN LinesLoop(LinesAsserted(LinesStep(st, Config), BufferTop),
                   Config, BufferTop)
    ELSE st

\* The first pass: the buffer it leaves and whether its assertion held.
ScCleanseLines(Buffer, BufferLength, Config) ==
  LinesLoop([Buffer |-> Buffer, Pos |-> 0, BufferLength |-> BufferLength,
             AssertOk |-> TRUE],
            Config, BufferLength)

\* Lines 285-290: every generalisee is at least as long as its generaliser.
GeneraliseesAsserted(Config) ==
  \A Index \in 1..Len(Config.Generalises) :
    \A Index2 \in 1..Len(Config.Generalises[Index].Generalisees) :
      Len(Config.Generalises[Index].Generaliser)
        <= Len(Config.Generalises[Index].Generalisees[Index2])

\* Lines 299-307: the generalisees of a group that start at Pos.
GeneraliseesAt(st, Generalise) ==
  {Index2 \in 1..Len(Generalise.Generalisees) :
     ScStrnPrefix(st.Buffer, st.Pos, Generalise.Generalisees[Index2],
                  st.BufferLength) = 0}

\* Lines 296-338: the groups one of whose generalisees starts at Pos.
GeneralisesAt(st, Config) ==
  {GenIndex \in 1..Len(Config.Generalises) :
     GeneraliseesAt(st, Config.Generalises[GenIndex]) # {}}

\* The loops run in array order and stop at the first match.
First(S) == CHOOSE i \in S : \A j \in S : i <= j

\* Lines 311-324: the generaliser is copied over the occurrence and the
\* trailer is filled up with spaces.
Generalised(Buffer, Pos, Generaliser, Generalisee) ==
  [k \in 1..Len(Buffer) |->
     IF k > Pos /\ k <= Pos + Len(Generaliser)
       THEN Generaliser[k - Pos]
       ELSE IF k > Pos /\ k <= Pos + Len(Generalisee)
              THEN SPACE
              ELSE Buffer[k]]

\* Lines 311-329 and the increment of line 292 for a match.
GeneraliseMatch(st, Generaliser, Generalisee) ==
  [st EXCEPT !.Buffer = Generalised(st.Buffer, st.Pos, Generaliser,
                                    Generalisee),
             !.Pos = st.Pos + Len(Generalisee),
             !.BufferLength = st.BufferLength - Len(Generalisee)]

\* Variant: the last generalisee of the group that matches is taken.
GeneraliseIn_LastMatch(st, Generalise) ==
  GeneraliseMatch(st, Generalise.Generaliser,
                  Generalise.Generalisees[
                    CHOOSE i \in GeneraliseesAt(st, Generalise) :
                      \A j \in GeneraliseesAt(st, Generalise) : j <= i])

GeneraliseIn(st, Generalise) ==
  GeneraliseMatch(st, Generalise.Generaliser,
                  Generalise.Generalisees[First(GeneraliseesAt(st,
                                                               Generalise))])

\* One pass of the for loop of line 292.
GeneraliseStep(st, Config) ==
  IF GeneralisesAt(st, Config) # {}
    THEN GeneraliseIn(st, Config.Generalises[First(GeneralisesAt(st, Config))])
    ELSE [st EXCEPT !.Pos = st.Pos + 1,
                    !.BufferLength = st.BufferLength - 1]

RECURSIVE GeneraliseLoop(_, _)
GeneraliseLoop(st, Config) ==
  IF st.BufferLength > 0
    THEN GeneraliseLoop(GeneraliseStep(st, Config), Config)
    ELSE st

\* The second pass: the buffer it leaves and whether its assertions held.
ScCleanseGeneralisees(Buffer, BufferLength, Config) ==
  GeneraliseLoop([Buffer |-> Buffer, Pos |-> 0, BufferLength |-> BufferLength,
                  AssertOk |-> GeneraliseesAsserted(Config)],
                 Config)

\* Line 120: PreceedingNewLine points at PreceedingNewLineTmp.
PreceedingNewLineTmp == -1

\* Lines 154-160: the byte is one of the profile's new line characters.
IsNewLineChar(Char, Config) ==
  \E Index \in 1..Len(Config.NewLineChars) : Char = Config.NewLineChars[Index]

\* *Pointer = Char, where the pointer is into the buffer or at the
\* temporary.
Store(Buffer, Pointer, Char) ==
  IF Pointer = PreceedingNewLineTmp
    THEN Buffer
    ELSE [Buffer EXCEPT ![Pointer + 1] = Char]

\* The switch of lines 129-191 for the byte at Pos.  st holds Buffer, Pos
\* and PreceedingNewLine.
WhitespaceStep(st, Char, Config) ==
  IF Char = VT \/ Char = TAB
    THEN [st EXCEPT !.Buffer = Store(st.Buffer, st.Pos, SPACE),
                    !.Pos = st.Pos + 1]
    ELSE IF Char = SPACE
      THEN [st EXCEPT !.Pos = st.Pos + 1]
      ELSE IF Char # CR /\ Char # NL /\ ~IsNewLineChar(Char, Config)
        THEN [st EXCEPT !.PreceedingNewLine = PreceedingNewLineTmp,
                        !.Pos = st.Pos + 1]
        ELSE [Buffer |-> Store(Store(st.Buffer, st.Pos, NL),
                               st.PreceedingNewLine, SPACE),
              Pos    |-> st.Pos + 1,
              PreceedingNewLine |-> st.Pos]

RECURSIVE WhitespaceLoop(_, _, _)
WhitespaceLoop(st, Config, BufferTop) ==
  IF st.Pos < BufferTop
    THEN WhitespaceLoop(WhitespaceStep(st, st.Buffer[st.Pos + 1], Config),
                        Config, BufferTop)
    ELSE st

\* The third pass without its last statement.
TrailingCleared_Kept(st) == st.Buffer

\* Line 196: the trailing new line is cleared.
TrailingCleared(st) == Store(st.Buffer, st.PreceedingNewLine, SPACE)

\* The third pass: the buffer it leaves.
ScCleanseWhitespacesInLines(Buffer, BufferLength, Config) ==
  TrailingCleared(
    WhitespaceLoop([Buffer |-> Buffer, Pos |-> 0,
                    PreceedingNewLine |-> PreceedingNewLineTmp],
                   Config, BufferLength))

\* The first index from From on, below BufferLength, whose byte is a space;
\* BufferLength when there is none (lines 361-365 and 404-408).
RECURSIVE FindSpace(_, _, _)
FindSpace(Buffer, BufferLength, From) ==
  IF From < BufferLength /\ Buffer[From + 1] # SPACE
    THEN FindSpace(Buffer, BufferLength, From + 1)
    ELSE From

\* The loop of lines 388-392 stopping at a new line as well.
RECURSIVE SkipWhitespacePrefix_SpacesOnly(_, _, _)
SkipWhitespacePrefix_SpacesOnly(Buffer, BufferLength, From) ==
  IF From < BufferLength /\ Buffer[From + 1] = SPACE
    THEN SkipWhitespacePrefix_SpacesOnly(Buffer, BufferLength, From + 1)
    ELSE From

\* Lines 388-392: the first index from From on whose byte is neither a
\* space nor a new line.
RECURSIVE SkipWhitespacePrefix(_, _, _)
SkipWhitespacePrefix(Buffer, BufferLength, From) ==
  IF From < BufferLength /\ (Buffer[From + 1] = SPACE \/ Buffer[From + 1] = NL)
    THEN SkipWhitespacePrefix(Buffer, BufferLength, From + 1)
    ELSE From

\* memmove(&Buffer[TargetIndex], &Buffer[SourceIndex], ChunkSize).
MemMove(Buffer, TargetIndex, SourceIndex, ChunkSize) ==
  [k \in 1..Len(Buffer) |->
     IF k > TargetIndex /\ k <= TargetIndex + ChunkSize
       THEN Buffer[k - TargetIndex + SourceIndex]
       ELSE Buffer[k]]

\* Lines 399-420: the fragment from SourceIndex to SourceIndexEnd is moved
\* to TargetIndex.  st holds Buffer, SourceIndex and TargetIndex.
MoveFragment(st, SourceIndexEnd) ==
  [Buffer      |-> MemMove(st.Buffer, st.TargetIndex, st.SourceIndex,
                           SourceIndexEnd - st.SourceIndex),
   TargetIndex |-> st.TargetIndex + (SourceIndexEnd - st.SourceIndex),
   SourceIndex |-> SourceIndexEnd]

\* The for loop of lines 395-421.
RECURSIVE RemoveLoop(_, _)
RemoveLoop(st, BufferLength) ==
  IF st.SourceIndex < BufferLength
    THEN IF st.Buffer[st.SourceIndex + 1] # SPACE
           THEN RemoveLoop(
                  MoveFragment(st, FindSpace(st.Buffer, BufferLength,
                                             st.SourceIndex + 1)),
                  BufferLength)
           ELSE RemoveLoop([st EXCEPT !.SourceIndex = st.SourceIndex + 1],
                           BufferLength)
    ELSE st

\* Lines 425: what the call leaves.
Removed(st) == [Buffer |-> st.Buffer, Length |-> st.TargetIndex]

\* Lines 370-393, for the TargetIndex the first loop found.
RemoveFrom(Buffer, BufferLength, TargetIndex) ==
  IF TargetIndex # 0
    THEN IF TargetIndex = BufferLength
           THEN [Buffer |-> Buffer, Length |-> BufferLength]
           ELSE Removed(RemoveLoop([Buffer |-> Buffer,
                                    TargetIndex |-> TargetIndex,
                                    SourceIndex |-> TargetIndex + 1],
                                   BufferLength))
    ELSE Removed(RemoveLoop(
           [Buffer |-> Buffer,
            TargetIndex |-> 0,
            SourceIndex |-> SkipWhitespacePrefix(Buffer, BufferLength, 1)],
           BufferLength))

\* The fourth pass: the buffer and the length it leaves.
ScCleanseRemoveSpaces(Buffer, BufferLength) ==
  IF Buffer[1] # NL
    THEN RemoveFrom(Buffer, BufferLength, FindSpace(Buffer, BufferLength, 0))
    ELSE RemoveFrom(Buffer, BufferLength, 0)

\* Lines 446-448: there may not be empty lines.
NoConsecutiveNewLines(Buffer, BufferLength) ==
  \A CharIndex \in 1..(BufferLength - 1) :
    Buffer[CharIndex] # NL \/ Buffer[CharIndex + 1] # NL

\* Lines 452-454: there may not be a trailing new line.
NoTrailingNewLine(Buffer, BufferLength) ==
  BufferLength > 0 => Buffer[BufferLength] # NL

\* Lines 443-454 after the fourth pass.
CleanseAsserted(r, AssertOk) ==
  [Buffer   |-> r.Buffer,
   Length   |-> r.Length,
   AssertOk |-> /\ AssertOk
                /\ NoConsecutiveNewLines(r.Buffer, r.Length)
                /\ NoTrailingNewLine(r.Buffer, r.Length)]

\* Lines 441-442 on what the second pass left.
CleanseAfterGeneralisees(g, BufferLength, Config, AssertOk) ==
  CleanseAsserted(
    ScCleanseRemoveSpaces(
      ScCleanseWhitespacesInLines(g.Buffer, BufferLength, Config),
      BufferLength),
    AssertOk /\ g.AssertOk)

\* Line 440 on what the first pass left.
CleanseAfterLines(l, BufferLength, Config) ==
  CleanseAfterGeneralisees(
    ScCleanseGeneralisees(l.Buffer, BufferLength, Config),
    BufferLength, Config, l.AssertOk)

\* The buffer and the length the call leaves, and whether every assertion
\* on the way held.
ScCleanseInput(Buffer, BufferLength, Config) ==
  CleanseAfterLines(ScCleanseLines(Buffer, BufferLength, Config),
                    BufferLength, Config)

(***************************************************************************)
(* EntryPoints/ScCommon.c: ScInitialiseCleanseFile.  Result is what the    *)
(* call returns; LinesInfo is None where the call left none.               *)
(***************************************************************************)
\* Lines 209-220 for the table ScStrGetLineInfo returned.
\* Variant: a line one byte over the limit is let through.
FileWithLinesUpTo_OneOver(c, LinesInfo, LineLimit) ==
  [Buffer    |-> c.Buffer,
   Length    |-> c.Length,
   LinesInfo |-> IF LinesInfo.MaxLineLength > LineLimit + 1
                   THEN None ELSE LinesInfo,
   Result    |-> ~(LinesInfo.MaxLineLength > LineLimit + 1),
   AssertOk  |-> /\ c.AssertOk
                 /\ \A Index \in 0..(LinesInfo.NumLines - 1) :
                      LinesInfo.Lines[Index + 1].Length > 0]

\* Lines 205-220 in a build whose SC_MAX_LINE_LENGTH is LineLimit.
FileWithLinesUpTo(c, LinesInfo, LineLimit) ==
  [Buffer    |-> c.Buffer,
   Length    |-> c.Length,
   LinesInfo |-> IF LinesInfo.MaxLineLength > LineLimit
                   THEN None ELSE LinesInfo,
   Result    |-> ~(LinesInfo.MaxLineLength > LineLimit),
   AssertOk  |-> /\ c.AssertOk
                 /\ \A Index \in 0..(LinesInfo.NumLines - 1) :
                      LinesInfo.Lines[Index + 1].Length > 0]

FileWithLines(c, LinesInfo) ==
  FileWithLinesUpTo(c, LinesInfo, SC_MAX_LINE_LENGTH)

\* Lines 195-204: an empty file and a failed allocation return false.
FileWithoutLines(c) ==
  [Buffer |-> c.Buffer, Length |-> c.Length, LinesInfo |-> None,
   Result |-> FALSE, AssertOk |-> c.AssertOk]

\* Lines 191-220 for what ScCleanseInput left; Allocated is whether the
\* malloc of ScStrGetLineInfo succeeded.
FileInitialised(c, Allocated) ==
  IF c.Length = 0 \/ ~Allocated
    THEN FileWithoutLines(c)
    ELSE FileWithLines(c, ScStrGetLineInfo(c.Buffer, c.Length))

\* The same in a build whose SC_MAX_LINE_LENGTH is LineLimit.
FileInitialisedUpTo(c, Allocated, LineLimit) ==
  IF c.Length = 0 \/ ~Allocated
    THEN FileWithoutLines(c)
    ELSE FileWithLinesUpTo(c, ScStrGetLineInfo(c.Buffer, c.Length), LineLimit)

(***************************************************************************)
(* CleanseSpec: a file's bytes are cleansed under one of the built-in      *)
(* profiles by ScInitialiseCleanseFile, and ScCleanseInput is then run on  *)
(* the cleansed buffer once more under the same profile.                   *)
(***************************************************************************)
\* Most atoms an input buffer is put together from.
MaxAtoms == 4

\* Byte strings that make up the inputs: whitespace, a new line character
\* of the C and Java profiles, the bytes of the comment markers, and the
\* two halves of a generalisee all language profiles have.
CleanseAtoms ==
  { <<SPACE>>, <<NL>>, <<CR>>, Chars(";"), Chars("/"), Chars("*"),
    Chars("dou"), Chars("ble") }

RECURSIVE Concat(_)
Concat(ss) == IF ss = <<>> THEN <<>> ELSE Head(ss) \o Concat(Tail(ss))

CleanseInputs ==
  {Concat(ss) : ss \in NonEmptySeqsUpTo(CleanseAtoms, MaxAtoms)}

\* A statement with a type, a name and a line comment.
StatementInput == Chars("int   x ;  // note") \o <<NL>>

CleanseInit ==
  /\ pc = "cleanse_file"
  /\ FileType \in ScCleanseConfigTypeMin..ScCleanseConfigTypeMax
  /\ Input \in CleanseInputs \cup {StatementInput}
  /\ Cleansed = None
  /\ Recleansed = None
  /\ DistIdle
  /\ SwapIdle
  /\ IndexIdle
  /\ MainIdle

\* ScCommon.c lines 177-221 on the bytes ScReadFile returned.
ScInitialiseCleanseFile ==
  /\ pc = "cleanse_file"
  /\ \E Allocated \in BOOLEAN :
       Cleansed' = FileInitialised(
                     ScCleanseInput(Input, Len(Input),
                                    gScCleanseConfigs[FileType]),
                     Allocated)
  /\ pc' = "cleansed"
  /\ UNCHANGED <<FileType, Input, Recleansed, distVars, swapVars, indexVars,
                 mainVars>>

\* ScCleanseInput called on the cleansed buffer, which the call requires to
\* be non-empty.
ScCleanseInputAgain ==
  /\ pc = "cleansed"
  /\ Cleansed.Length > 0
  /\ Recleansed' = ScCleanseInput(Cleansed.Buffer, Cleansed.Length,
                                  gScCleanseConfigs[FileType])
  /\ pc' = "recleansed"
  /\ UNCHANGED <<FileType, Input, Cleansed, distVars, swapVars, indexVars,
                 mainVars>>

CleanseNext == ScInitialiseCleanseFile \/ ScCleanseInputAgain

CleanseSpec == CleanseInit /\ [][CleanseNext]_vars

\* The Length bytes a buffer holds.
Bytes(Buffer, Length) == SubSeq(Buffer, 1, Length)

\* C5: cleansing is idempotent: running ScCleanseInput again, under the
\* same profile, on the non-empty result of ScCleanseInput leaves its bytes
\* and its length unchanged.
C5_Idempotent ==
  pc = "recleansed" =>
    /\ Recleansed.Length = Cleansed.Length
    /\ Bytes(Recleansed.Buffer, Recleansed.Length)
         = Bytes(Cleansed.Buffer, Cleansed.Length)

\* Token occurs somewhere in Text.
Occurs(Token, Text) ==
  \E p \in 0..(Len(Text) - Len(Token)) :
    \A k \in 1..Len(Token) : Text[p + k] = Token[k]

\* Text holds a byte string that the first or the second pass of the
\* profile acts on: a line drop prefix, the start of a multi line comment
\* or a generalisee.
HoldsMarker(Text, Config) ==
  \/ \E d \in 1..Len(Config.LineDropPrefixes) :
       Occurs(Config.LineDropPrefixes[d], Text)
  \/ Len(Config.MultiCommentStart) > 0 /\ Occurs(Config.MultiCommentStart, Text)
  \/ \E g \in 1..Len(Config.Generalises) :
       \E e \in 1..Len(Config.Generalises[g].Generalisees) :
         Occurs(Config.Generalises[g].Generalisees[e], Text)

\* C5 as amended: running ScCleanseInput again, under the same profile, on
\* the non-empty result of ScCleanseInput leaves its bytes and its length
\* unchanged exactly when the result holds no line drop prefix, no multi
\* line comment start and no generalisee of the profile.
C5_IdempotentUnlessMarker ==
  pc = "recleansed" =>
    ( ~HoldsMarker(Bytes(Cleansed.Buffer, Cleansed.Length),
                   gScCleanseConfigs[FileType])
      <=> /\ Recleansed.Length = Cleansed.Length
          /\ Bytes(Recleansed.Buffer, Recleansed.Length)
               = Bytes(Cleansed.Buffer, Cleansed.Length) )

\* "*double;" under the C profile is cleansed to "*int", which holds no
\* marker and is cleansed to itself.
C5_Witness ==
  /\ pc = "recleansed"
  /\ FileType = 0
  /\ Input = Chars("*double;")
  /\ Bytes(Cleansed.Buffer, Cleansed.Length) = Chars("*int")
  /\ Bytes(Recleansed.Buffer, Recleansed.Length) = Chars("*int")

\* C6: the buffer ScCleanseInput leaves has no two consecutive new lines,
\* no leading and no trailing new line, and so no empty line; the
\* assertions at the end of ScCleanseInput and the Length > 0 assertion of
\* ScInitialiseCleanseFile hold.
Canonical(c) ==
  /\ c.AssertOk
  /\ \A i \in 1..(c.Length - 1) : ~(c.Buffer[i] = NL /\ c.Buffer[i + 1] = NL)
  /\ c.Length > 0 => (c.Buffer[1] # NL /\ c.Buffer[c.Length] # NL)

C6_PostConditions ==
  /\ pc \in {"cleansed", "recleansed"} =>
       /\ Canonical(Cleansed)
       /\ Cleansed.Result =>
            \A i \in 1..Cleansed.LinesInfo.NumLines :
              Cleansed.LinesInfo.Lines[i].Length > 0
  /\ pc = "recleansed" => Canonical(Recleansed)

\* ";dou\nble" under the C profile: the leading new line goes, two lines
\* stay.
C6_Witness ==
  /\ pc = "cleansed"
  /\ FileType = 0
  /\ Input = <<";">> \o Chars("dou") \o <<NL>> \o Chars("ble")
  /\ Bytes(Cleansed.Buffer, Cleansed.Length)
       = Chars("dou") \o <<NL>> \o Chars("ble")
  /\ Cleansed.Result
  /\ Cleansed.LinesInfo.NumLines = 2

(***************************************************************************)
(* EntryPoints/ScMain.c.  unsigned int has 32 bits.  An unsigned int value *)
(* is kept, like a size_t value, by its representative nearest to 0: -k    *)
(* stands for 2^32 - k, so that UINT_MAX is -1.                            *)
(***************************************************************************)
\* 2^31 - 1; 2^31 itself is no number TLC can hold.
INT32_MAX == 2147483647

\* (u + v) mod 2^31 for u and v in 0 .. 2^31 - 1.
AddMod31(u, v) ==
  IF u > INT32_MAX - v THEN (u - (INT32_MAX - v)) - 1 ELSE u + v

\* (u + u) mod 2^31.
DoubleMod31(u) == AddMod31(u, u)

\* (a * b) mod 2^31 for a and b in 0 .. 2^31 - 1, by doubling.
RECURSIVE MulMod31(_, _)
MulMod31(a, b) ==
  IF b = 0
    THEN 0
    ELSE AddMod31(DoubleMod31(MulMod31(a, b \div 2)),
                  IF b % 2 = 1 THEN a ELSE 0)

\* x * (x + 1) / 2 for x >= 0, reduced modulo 2^31.
HalfProductMod31(x) ==
  IF x % 2 = 0 THEN MulMod31(x \div 2, x + 1)
               ELSE MulMod31(x, (x + 1) \div 2)

\* SC_GAUSS_SUM on an unsigned int: ((x * (x + 1U)) mod 2^32) / 2U.  The
\* product is even, so this is (x * (x + 1) / 2) mod 2^31; for the
\* representative -k the product is that of k - 1.
SC_GAUSS_SUM(x) ==
  IF x < 0 THEN HalfProductMod31((-x) - 1) ELSE HalfProductMod31(x)

\* Line 161, on the NumFiles the compaction left.
NumFilesMinus1(N) == N - 1

\* Line 162.
NumFilesMinus1Gauss(N) == SC_GAUSS_SUM(NumFilesMinus1(N))

\* Lines 171 and 218.
FilesLeft(N, Index1) == NumFilesMinus1(N) - Index1

\* Lines 176 and 219: a size_t difference of two unsigned int values.
File1DistStart(N, Index1) ==
  NumFilesMinus1Gauss(N) - SC_GAUSS_SUM(FilesLeft(N, Index1))

\* Line 233: the index the assertion compares DistIndex with.
EmitIndex(N, Index1, Index2) ==
  File1DistStart(N, Index1) + (Index2 - (Index1 + 1))

(***************************************************************************)
(* The emission loop, lines 212-246, as far as its indices go.             *)
(***************************************************************************)
\* Line 212 and the initialisers of the two for loops.
EmitStart ==
  /\ DistIndex' = 0
  /\ File1Index' = 0
  /\ File2Index' = 1
  /\ EmitAssertOk' = TRUE

\* Lines 233-244: one pass of the inner loop.  A failed assertion ends the
\* program.
EmitPass ==
  /\ pc = "emit"
  /\ File1Index < NumFiles
  /\ File2Index < NumFiles
  /\ IF DistIndex = EmitIndex(NumFiles, File1Index, File2Index)
       THEN /\ DistIndex' = DistIndex + 1
            /\ File2Index' = File2Index + 1
            /\ pc' = pc
            /\ UNCHANGED EmitAssertOk
       ELSE /\ EmitAssertOk' = FALSE
            /\ pc' = "abort"
            /\ UNCHANGED <<DistIndex, File2Index>>
  /\ UNCHANGED <<NumFiles, File1Index>>

\* Lines 213 and 225: the inner loop is over, the outer loop goes on.
EmitNextAnchor ==
  /\ pc = "emit"
  /\ File1Index < NumFiles
  /\ ~(File2Index < NumFiles)
  /\ File1Index' = File1Index + 1
  /\ File2Index' = File1Index + 2
  /\ UNCHANGED <<pc, NumFiles, DistIndex, EmitAssertOk>>

\* Line 213: the outer loop is over.
EmitEnd ==
  /\ pc = "emit"
  /\ ~(File1Index < NumFiles)
  /\ pc' = "emitted"
  /\ UNCHANGED indexVars

(***************************************************************************)
(* IndexSpec: the emission loop for a number of files the compaction left, *)
(* with the files and the ratings left out.                                *)
(***************************************************************************)
\* Most files given on the command line.
MaxFiles == 4

\* The smallest number of files for which NumFiles - 1 times NumFiles does
\* not fit 32 bits.
FirstWrap == 2^16 + 1

IndexInit ==
  /\ pc = "emit"
  /\ NumFiles \in (2..MaxFiles) \cup {FirstWrap}
  /\ DistIndex = 0
  /\ File1Index = 0
  /\ File2Index = 1
  /\ EmitAssertOk = TRUE
  /\ DistIdle
  /\ SwapIdle
  /\ CleanseIdle
  /\ MainIdle

IndexPass ==
  EmitPass /\ UNCHANGED <<distVars, swapVars, cleanseVars, mainVars>>

IndexNextAnchor ==
  EmitNextAnchor /\ UNCHANGED <<distVars, swapVars, cleanseVars, mainVars>>

IndexEnd ==
  EmitEnd /\ UNCHANGED <<distVars, swapVars, cleanseVars, mainVars>>

IndexNext == IndexPass \/ IndexNextAnchor \/ IndexEnd

IndexSpec == IndexInit /\ [][IndexNext]_vars

\* The pairs (i, j), i < j < N, that come before (Index1, Index2) in
\* anchor-major order: N*(N-1)/2 - (N-1-Index1)*(N-Index1)/2 + (Index2 -
\* Index1 - 1), written without the two halves that need not fit the
\* integers of TLC.
PairRank(N, Index1, Index2) ==
  (Index1 * (2 * N - Index1 - 1)) \div 2 + (Index2 - Index1 - 1)

\* C7: the pair-index mapping is a bijection: for every N >= 2 the flat
\* index File1DistStart(i) + (j - i - 1) of the pairs in anchor-major order
\* is the running counter DistIndex (the assertion never fails), so it takes
\* each value in [0, N*(N-1)/2) exactly once.
C7_Bijection ==
  /\ EmitAssertOk
  /\ (pc = "emit" /\ File1Index < NumFiles /\ File2Index < NumFiles) =>
       /\ DistIndex = PairRank(NumFiles, File1Index, File2Index)
       /\ EmitIndex(NumFiles, File1Index, File2Index) = DistIndex
  /\ pc = "emitted" => DistIndex = (NumFiles * (NumFiles - 1)) \div 2

(***************************************************************************)
(* main: the files named on the command line.  FileArgs(k) is argv[k + 1]; *)
(* FileContents(k) is what the file holds when it can be read.             *)
(***************************************************************************)
FileArgs(k) ==
  CASE k % 4 = 0 -> Chars("a.c")
    [] k % 4 = 1 -> Chars("b.java")
    [] k % 4 = 2 -> Chars("notes")
    [] k % 4 = 3 -> Chars("d.x.fs")

FileContents(k) ==
  CASE k = 0 -> Chars("x;y")
    [] k = 1 -> Chars("x;")
    [] k = 2 -> <<"x", SPACE, "y", NL, "z">>
    [] k = 3 -> Chars("double")
    [] OTHER -> Chars("xyz;z") \o [n \in 1..(k - 4) |-> "w"]

\* What a file may hold: its contents, or a blank that cleansing empties.
FileContentChoices(k) == {FileContents(k), <<SPACE>>}

\* ScFileIo.c lines 136-151.  Extension is the offset of the extension.
RECURSIVE ExtensionLoop(_, _, _)
ExtensionLoop(FileName, CharIndex, Extension) ==
  IF CharIndex < Len(FileName)
    THEN ExtensionLoop(FileName, CharIndex + 1,
                       IF FileName[CharIndex + 1] = "." THEN CharIndex + 1
                                                        ELSE Extension)
    ELSE Extension

\* Variant: the extension starts after the first '.' of the name.
ScGetFileExtension_FirstDot(FileName) ==
  IF \E i \in 1..Len(FileName) : FileName[i] = "."
    THEN SubSeq(FileName,
                First({i \in 1..Len(FileName) : FileName[i] = "."}) + 1,
                Len(FileName))
    ELSE FileName

ScGetFileExtension(FileName) ==
  SubSeq(FileName, ExtensionLoop(FileName, 0, 0) + 1, Len(FileName))

\* ScCommon.c lines 252-269: strcmp finds the extension in the profile.
ExtensionMatches(FileExt, t) ==
  \E ExtIndex \in 1..Len(gScCleanseConfigs[t].FileExts) :
    FileExt = Chars(gScCleanseConfigs[t].FileExts[ExtIndex])

\* ScCommon.c lines 237-279 for the wildcard ScCleanseConfigTypeMax.
DetectedTypes(FileExt) ==
  {t \in ScCleanseConfigTypeMin..(ScCleanseConfigTypeMax - 1) :
     ExtensionMatches(FileExt, t)}

DetectFileType(FileExt) ==
  IF DetectedTypes(FileExt) = {} THEN ScCleanseConfigTypeMax
                                 ELSE First(DetectedTypes(FileExt))

\* A sc_cleanse_file_t of main.  Buffer.Ptr says what the pointer is: "heap"
\* (the bytes are Buffer.Bytes), "NULL", "freed" or "uninit" (never set).
UninitFile ==
  [Buffer    |-> [Ptr |-> "uninit", Bytes |-> <<>>],
   Length    |-> 0,
   LinesInfo |-> None,
   Reserved  |-> 0]

\* ScCommon.c lines 284-286: ScReadFile returned NULL.
FileNotRead ==
  [Result |-> FALSE,
   File   |-> [UninitFile EXCEPT !.Buffer.Ptr = "NULL"]]

\* ScCommon.c lines 290-295 for what ScInitialiseCleanseFile left.
FileRead(f) ==
  [Result |-> f.Result,
   File   |-> [Buffer    |-> [Ptr   |-> IF f.Result THEN "heap" ELSE "freed",
                              Bytes |-> f.Buffer],
               Length    |-> f.Length,
               LinesInfo |-> f.LinesInfo,
               Reserved  |-> 0]]

\* ScCommon.c lines 223-296 in a build whose SC_MAX_LINE_LENGTH is
\* LineLimit.  ReadOk: ScReadFile returned the Content; Allocated: the
\* malloc of ScStrGetLineInfo succeeded.
ScReadCleansedFileUpTo(FileName, Type, ReadOk, Content, Allocated, LineLimit) ==
  IF ~ReadOk
    THEN FileNotRead
    ELSE FileRead(
           FileInitialisedUpTo(
             ScCleanseInput(Content, Len(Content),
                            gScCleanseConfigs[
                              IF Type = ScCleanseConfigTypeMax
                                THEN DetectFileType(
                                       ScGetFileExtension(FileName))
                                ELSE Type]),
             Allocated, LineLimit))

ScReadCleansedFile(FileName, Type, ReadOk, Content, Allocated) ==
  ScReadCleansedFileUpTo(FileName, Type, ReadOk, Content, Allocated,
                         SC_MAX_LINE_LENGTH)

(***************************************************************************)
(* The allocations of a file: its buffer (ScFileIo.c line 68) and its line *)
(* table (ScStringMisc.c, malloc of ScStrGetLineInfo).  Each is "none"     *)
(* (never handed to ScReadCleansedFile's caller or never made), "live",    *)
(* "freed", or says what went wrong with it.                               *)
(***************************************************************************)
HeapNone == [Buffer |-> "none", LinesInfo |-> "none"]

\* free of the allocation.
Freed(a) ==
  CASE a = "live"  -> "freed"
    [] a = "freed" -> "freed twice"
    [] a = "none"  -> "freed unallocated"
    [] OTHER       -> a

\* A read or a write through the pointer.
Used(a) == IF a = "live" THEN a ELSE IF a = "freed" THEN "used after free"
                                                     ELSE a

\* ScCommon.c lines 203-217 and 290-293 for what ScReadCleansedFile
\* returned: on success both are live; when ScReadFile returned NULL there
\* is neither; otherwise the buffer has been freed (line 292), and the table
\* too if it was allocated (line 216).
HeapAfterRead_BufferKept(r, Allocated) ==
  [Buffer    |-> IF r.File.Buffer.Ptr = "NULL" THEN "none" ELSE "live",
   LinesInfo |-> IF r.Result THEN "live"
                 ELSE IF r.File.Buffer.Ptr = "NULL" \/ r.File.Length = 0
                           \/ ~Allocated
                        THEN "none"
                        ELSE "freed"]

HeapAfterRead(r, Allocated) ==
  [Buffer    |-> IF r.Result THEN "live"
                 ELSE IF r.File.Buffer.Ptr = "NULL" THEN "none" ELSE "freed",
   LinesInfo |-> IF r.Result THEN "live"
                 ELSE IF r.File.Buffer.Ptr = "NULL" \/ r.File.Length = 0
                           \/ ~Allocated
                        THEN "none"
                        ELSE "freed"]

\* ScCommon.c lines 298-306: ScFreeCleansedFile.  The pointers of an entry
\* of Files are those of the file its Reserved names.
ScFreeCleansedFile(heap, File) ==
  [heap EXCEPT ![File.Reserved] =
     [Buffer |-> Freed(@.Buffer), LinesInfo |-> Freed(@.LinesInfo)]]

\* Variant: the loop frees every entry the array was allocated for.
RECURSIVE FreeLoop_AllEntries(_, _, _, _)
FreeLoop_AllEntries(heap, Fs, FileIndex, N) ==
  IF FileIndex \in DOMAIN Fs
    THEN FreeLoop_AllEntries(ScFreeCleansedFile(heap, Fs[FileIndex]), Fs,
                             FileIndex + 1, N)
    ELSE heap

\* ScMain.c lines 250-253.
RECURSIVE FreeLoop(_, _, _, _)
FreeLoop(heap, Fs, FileIndex, N) ==
  IF FileIndex < N
    THEN FreeLoop(ScFreeCleansedFile(heap, Fs[FileIndex]), Fs, FileIndex + 1,
                  N)
    ELSE heap

\* ScCommon.c lines 64-137: ScLevenshteinSwap reads the line tables and the
\* buffers of its two files.
SwapUsed(heap, F1, F2) ==
  [k \in DOMAIN heap |->
     IF k \in {F1.Reserved, F2.Reserved}
       THEN [Buffer |-> Used(heap[k].Buffer),
             LinesInfo |-> Used(heap[k].LinesInfo)]
       ELSE heap[k]]

\* The file as ScLevenshteinSwap takes it.
AsCleansedFile(f) ==
  [Buffer |-> f.Buffer.Bytes, Length |-> f.Length, LinesInfo |-> f.LinesInfo]

\* Variant: the memmove leaves the last entry where it is.
FilesMoved_ButLast(Fs, FileIndex, Count) ==
  [k \in DOMAIN Fs |->
     IF k >= FileIndex /\ k < FileIndex + Count - 1 THEN Fs[k + 1] ELSE Fs[k]]

\* ScMain.c lines 147-151: memmove of Count entries from FileIndex + 1 to
\* FileIndex.
FilesMoved(Fs, FileIndex, Count) ==
  [k \in DOMAIN Fs |->
     IF k >= FileIndex /\ k < FileIndex + Count THEN Fs[k + 1] ELSE Fs[k]]

\* Variant: FileIndex is not stepped back after an entry is removed, so the
\* entry moved into its place is not looked at.
RECURSIVE CompactLoop_NoStepBack(_)
CompactLoop_NoStepBack(st) ==
  IF st.FileIndex < st.NumFiles
    THEN IF st.Files[st.FileIndex].Buffer.Ptr = "NULL"
           THEN CompactLoop_NoStepBack(
                  [Files     |-> FilesMoved(st.Files, st.FileIndex,
                                            (st.NumFiles - 1) - st.FileIndex),
                   NumFiles  |-> st.NumFiles - 1,
                   FileIndex |-> st.FileIndex + 1])
           ELSE CompactLoop_NoStepBack(
                  [st EXCEPT !.FileIndex = st.FileIndex + 1])
    ELSE st

\* ScMain.c lines 144-154.  st holds Files, NumFiles and FileIndex.
RECURSIVE CompactLoop(_)
CompactLoop(st) ==
  IF st.FileIndex < st.NumFiles
    THEN IF st.Files[st.FileIndex].Buffer.Ptr = "NULL"
           THEN CompactLoop(
                  [Files     |-> FilesMoved(st.Files, st.FileIndex,
                                            (st.NumFiles - 1) - st.FileIndex),
                   NumFiles  |-> st.NumFiles - 1,
                   FileIndex |-> (st.FileIndex - 1) + 1])
           ELSE CompactLoop([st EXCEPT !.FileIndex = st.FileIndex + 1])
    ELSE st

\* ScMain.c lines 143-155 for the value read from FilesResult.
Compacted(Fs, N, Flag) ==
  IF ~Flag
    THEN CompactLoop([Files |-> Fs, NumFiles |-> N, FileIndex |-> 0])
    ELSE [Files |-> Fs, NumFiles |-> N, FileIndex |-> 0]

SC_NUM_LINES_SWAP == 3

SC_MAX_NUM_FILES == INT32_MAX

\* SC_GAUSS_SUM on a size_t of 64 bits, line 94: no wrap for the x modelled.
SC_GAUSS_SUM_SIZE(x) == (x * (x + 1)) \div 2

\* Variant: room for one double per pair of the files given.
RatingsSlots_Pairs(Argc) == ((Argc - 1) * (Argc - 2)) \div 2

\* Line 94: the number of doubles Ratings has room for.
RatingsSlots(Argc) == SC_GAUSS_SUM_SIZE(Argc - 1)

\* printf's %f of the double 1 - TotalDiff / TotalLength: the millionths,
\* rounded to nearest, ties to even.
Millionths(Num, Den) ==
  IF 2 * ((Num * 1000000) % Den) > Den
       \/ (2 * ((Num * 1000000) % Den) = Den
             /\ ((Num * 1000000) \div Den) % 2 = 1)
    THEN (Num * 1000000) \div Den + 1
    ELSE (Num * 1000000) \div Den

FormatF(Score) ==
  IF Score.Infinity
    THEN [Inf |-> TRUE, Millionths |-> 0]
    ELSE [Inf |-> FALSE,
          Millionths |-> Millionths(Score.TotalLength - Score.TotalDiff,
                                    Score.TotalLength)]

\* Lines 237-243: "%u %u %f\n".
EmitLine(Fs, Index1, Index2, Score) ==
  [Index1 |-> Fs[Index1].Reserved,
   Index2 |-> Fs[Index2].Reserved,
   Score  |-> FormatF(Score)]

\* What reading an element of Ratings that was never written may give.
AnyDouble ==
  { [Infinity |-> TRUE, TotalDiff |-> 0, TotalLength |-> 0, AssertOk |-> TRUE],
    [Infinity |-> FALSE, TotalDiff |-> 0, TotalLength |-> 1, AssertOk |-> TRUE],
    [Infinity |-> FALSE, TotalDiff |-> 1, TotalLength |-> 1, AssertOk |-> TRUE] }

\* Ratings[Index] as the emission loop reads it.
RatingsRead(Index) ==
  IF Index \in DOMAIN Ratings THEN {Ratings[Index]} ELSE AnyDouble

\* The per-file workers have all left the parallel loop of lines 106-136.
AllFilesJoined_NoBarrier == TRUE

AllFilesJoined == \A k \in DOMAIN FileState : FileState[k] = "done"

\* The iterations of the two nested parallel loops, lines 165-185.
PairIterations(N) ==
  {it \in (0..(N - 1)) \X (0..(N - 1)) : it[2] < FilesLeft(N, it[1])}

\* The iterations that have run.
PairsRun == {<<e.File1Index, e.File2Index>> : e \in PairLog}

\* Line 205: the element of Ratings an iteration writes.
PairSlot(N, Index1, Index2) == File1DistStart(N, Index1) + Index2

(***************************************************************************)
(* MainSpec: main from line 105 on, Files and Ratings allocated.           *)
(***************************************************************************)
MainInit ==
  /\ pc = "files"
  /\ argc \in 3..(MaxFiles + 1)
  /\ NumFiles = IF argc - 1 > SC_MAX_NUM_FILES THEN SC_MAX_NUM_FILES
                                              ELSE argc - 1
  /\ Files = [k \in 0..(NumFiles - 1) |-> UninitFile]
  /\ FileState = [k \in 0..(NumFiles - 1) |-> "read"]
  /\ Failed = {}
  /\ FilesResult = TRUE
  /\ FlagWriters = {}
  /\ FlagReads = <<>>
  /\ Ratings = <<>>
  /\ PairLog = {}
  /\ Output = <<>>
  /\ Heap = [k \in 0..(argc - 2) |-> HeapNone]
  /\ File1Index = None
  /\ File2Index = None
  /\ DistIndex = None
  /\ EmitAssertOk = None
  /\ DistIdle
  /\ SwapIdle
  /\ CleanseIdle

\* Lines 111-121 of the worker of FileIndex, for what ScReadCleansedFile
\* returned.
FileWorkerRead(FileIndex, r) ==
  /\ Files' = [Files EXCEPT ![FileIndex] =
                 [r.File EXCEPT !.Reserved = FileIndex]]
  /\ FileState' = [FileState EXCEPT ![FileIndex] =
                     IF r.Result THEN "done" ELSE "failed"]
  /\ Failed' = IF r.Result THEN Failed ELSE Failed \cup {FileIndex}

\* The same with what has become of the file's allocations.
FileWorkerReadOf(FileIndex, r, Allocated) ==
  /\ FileWorkerRead(FileIndex, r)
  /\ Heap' = [Heap EXCEPT ![FileIndex] = HeapAfterRead(r, Allocated)]

\* The worker of FileIndex in a build whose SC_MAX_LINE_LENGTH is
\* LineLimit, for a file that holds one of Contents.
ReadFileFrom(FileIndex, Contents, LineLimit) ==
  /\ pc = "files"
  /\ FileState[FileIndex] = "read"
  /\ \E ReadOk \in BOOLEAN, Allocated \in BOOLEAN, Content \in Contents :
       FileWorkerReadOf(FileIndex,
                        ScReadCleansedFileUpTo(FileArgs(FileIndex),
                                               ScCleanseConfigTypeMax,
                                               ReadOk, Content, Allocated,
                                               LineLimit),
                        Allocated)
  /\ UNCHANGED <<pc, argc, FilesResult, FlagWriters, FlagReads, Ratings,
                 PairLog, Output, indexVars, distVars, swapVars, cleanseVars>>

ReadFile(FileIndex) ==
  ReadFileFrom(FileIndex, FileContentChoices(FileIndex), SC_MAX_LINE_LENGTH)

\* Lines 122-132 of the worker of FileIndex.
MarkFailure(FileIndex) ==
  /\ pc = "files"
  /\ FileState[FileIndex] = "failed"
  /\ FilesResult' = FALSE
  /\ FlagWriters' = FlagWriters \cup {FileIndex}
  /\ Files' = [Files EXCEPT ![FileIndex].Buffer.Ptr = "NULL"]
  /\ FileState' = [FileState EXCEPT ![FileIndex] = "done"]
  /\ UNCHANGED <<pc, argc, Failed, FlagReads, Ratings, PairLog, Output, Heap,
                 indexVars, distVars, swapVars, cleanseVars>>

\* Lines 143-162 for what the compaction left.
CompactTo(c) ==
  /\ Files' = c.Files
  /\ NumFiles' = c.NumFiles

Compact ==
  /\ pc = "files"
  /\ AllFilesJoined
  /\ FlagReads' = Append(FlagReads, FilesResult)
  /\ CompactTo(Compacted(Files, NumFiles, FilesResult))
  /\ pc' = "pairs"
  /\ UNCHANGED <<argc, FileState, Failed, FilesResult, FlagWriters, Ratings,
                 PairLog, Output, Heap, File1Index, File2Index, DistIndex,
                 EmitAssertOk, distVars, swapVars, cleanseVars>>

\* Lines 186-205 of one iteration, for the slot it writes.  Writing outside
\* Ratings is undefined.
PairWrite(Index1, Index2, Slot, Score) ==
  /\ PairLog' = PairLog \cup {[File1Index |-> Index1, File2Index |-> Index2,
                               Slot |-> Slot]}
  /\ IF Slot >= 0 /\ Slot < RatingsSlots(argc)
       THEN /\ Ratings' = (Slot :> Score) @@ Ratings
            /\ pc' = pc
       ELSE /\ pc' = "undefined"
            /\ UNCHANGED Ratings

ScorePair(Index1, Index2) ==
  /\ pc = "pairs"
  /\ <<Index1, Index2>> \in PairIterations(NumFiles) \ PairsRun
  /\ PairWrite(Index1, Index2, PairSlot(NumFiles, Index1, Index2),
               ScLevenshteinSwap(AsCleansedFile(Files[Index1]),
                                 AsCleansedFile(Files[Index1 + 1 + Index2]),
                                 SC_NUM_LINES_SWAP))
  /\ Heap' = SwapUsed(Heap, Files[Index1], Files[Index1 + 1 + Index2])
  /\ UNCHANGED <<argc, Files, FileState, Failed, FilesResult, FlagWriters,
                 FlagReads, Output, indexVars, distVars, swapVars,
                 cleanseVars>>

\* Line 212, once the pair workers have all left the loop of lines 164-207.
EmitBegin ==
  /\ pc = "pairs"
  /\ PairsRun = PairIterations(NumFiles)
  /\ EmitStart
  /\ pc' = "emit"
  /\ UNCHANGED <<NumFiles, mainVars, distVars, swapVars, cleanseVars>>

\* Lines 233-244 with the line printed.
Emit ==
  /\ EmitPass
  /\ IF DistIndex = EmitIndex(NumFiles, File1Index, File2Index)
       THEN \E Score \in RatingsRead(DistIndex) :
              Output' = Append(Output,
                               EmitLine(Files, File1Index, File2Index, Score))
       ELSE UNCHANGED Output
  /\ UNCHANGED <<argc, Files, FileState, Failed, FilesResult, FlagWriters,
                 FlagReads, Ratings, PairLog, Heap, distVars, swapVars,
                 cleanseVars>>

EmitAnchor ==
  EmitNextAnchor /\ UNCHANGED <<mainVars, distVars, swapVars, cleanseVars>>

EmitFinish ==
  EmitEnd /\ UNCHANGED <<mainVars, distVars, swapVars, cleanseVars>>

\* Lines 250-258: everything is freed and main returns 0.
FreeFile(f) ==
  [f EXCEPT !.Buffer.Ptr = "freed", !.LinesInfo = None]

Exit ==
  /\ pc = "emitted"
  /\ Files' = [k \in DOMAIN Files |->
                 IF k < NumFiles THEN FreeFile(Files[k]) ELSE Files[k]]
  /\ Heap' = FreeLoop(Heap, Files, 0, NumFiles)
  /\ pc' = "exit"
  /\ UNCHANGED <<argc, FileState, Failed, FilesResult, FlagWriters, FlagReads,
                 Ratings, PairLog, Output, indexVars, distVars, swapVars,
                 cleanseVars>>

\* The iterations of the parallel loops, in whatever order they are run.
FileWorkerReads == \E FileIndex \in DOMAIN FileState : ReadFile(FileIndex)

FileWorkerMarks == \E FileIndex \in DOMAIN FileState : MarkFailure(FileIndex)

PairWorkers == \E it \in PairIterations(NumFiles) : ScorePair(it[1], it[2])

MainNext ==
  \/ FileWorkerReads
  \/ FileWorkerMarks
  \/ Compact
  \/ PairWorkers
  \/ EmitBegin
  \/ Emit
  \/ EmitAnchor
  \/ EmitFinish
  \/ Exit

MainSpec == MainInit /\ [][MainNext]_vars

\* The FileIndex values whose files are left after the compaction.
Survivors == (0..(argc - 2)) \ Failed

\* The survivors in rising order, indexed from 0 like Files.
RECURSIVE SortedFrom(_, _)
SortedFrom(S, n) ==
  IF S = {} THEN <<>>
            ELSE [k \in {n} |-> First(S)] @@ SortedFrom(S \ {First(S)}, n + 1)

\* The file of argument a when it is read and cleansed without failure.
ArgFile(a) ==
  ScReadCleansedFile(FileArgs(a), ScCleanseConfigTypeMax, TRUE,
                     FileContents(a), TRUE).File

\* The score of the files of arguments a and b, in this order.
ArgScore(a, b) ==
  ScLevenshteinSwap(AsCleansedFile(ArgFile(a)), AsCleansedFile(ArgFile(b)),
                    SC_NUM_LINES_SWAP)

\* The file name indices of the pair an iteration scored.
PairOf(e) ==
  <<Files[e.File1Index].Reserved,
    Files[e.File1Index + 1 + e.File2Index].Reserved>>

\* Slot is an element of an array of x * (x + 1) / 2 elements, told without
\* the product, which need not fit TLC's integers.
InGaussSum(Slot, x) ==
  /\ Slot >= 0
  /\ IF x % 2 = 0 THEN Slot \div (x + 1) < x \div 2
                  ELSE Slot \div x < (x + 1) \div 2

SlotWrittenIsSlotRead(Slot) ==
  InGaussSum(Slot, NumFiles) /\ Slot = DistIndex

\* C8: in the per-pair parallel phase the score of every pair (i, j), i < j,
\* of surviving files is written to a slot of Ratings that no other worker
\* writes, and every slot the emission reads was written before.  Said of
\* the pair the emission loop is at: the slot line 205 wrote its score to is
\* an element of Ratings, and it is the element DistIndex the emission reads
\* for it; as DistIndex counts the pairs, no two pairs then share a slot.
C8_SlotWrittenIsSlotRead ==
  (pc = "emit" /\ File1Index < NumFiles /\ File2Index < NumFiles) =>
    SlotWrittenIsSlotRead(
      PairSlot(NumFiles, File1Index, File2Index - (File1Index + 1)))

\* The same for the file counts of MainSpec, whose Gauss sums fit 32 bits,
\* under every interleaving of the workers: every pair of survivors is
\* scored once, into a slot of its own that holds its score, and the slots
\* the emission reads are all written when it starts.
PairsOnceOwnSlot_BelowWrap ==
  pc \in {"pairs", "emit", "emitted", "exit"} =>
    /\ \A e \in PairLog :
         /\ e.Slot >= 0 /\ e.Slot < RatingsSlots(argc)
         /\ e.Slot \in DOMAIN Ratings
         /\ PairOf(e)[1] < PairOf(e)[2]
         /\ {PairOf(e)[1], PairOf(e)[2]} \subseteq Survivors
         /\ Ratings[e.Slot] = ArgScore(PairOf(e)[1], PairOf(e)[2])
         /\ \A f \in PairLog :
              (e # f) => (e.Slot # f.Slot /\ PairOf(e) # PairOf(f))
    /\ pc # "pairs" =>
         /\ {PairOf(e) : e \in PairLog}
              = {p \in Survivors \X Survivors : p[1] < p[2]}
         /\ \A n \in 0..(Cardinality(PairLog) - 1) : n \in DOMAIN Ratings
         /\ Len(Output) <= Cardinality(PairLog)

\* Four files of which the second failed: the three pairs of the other
\* three have been scored and the emission is about to start.
PairsOnceOwnSlot_Reached ==
  /\ pc = "emit"
  /\ argc = 5
  /\ Failed = {1}
  /\ Cardinality(PairLog) = 3
  /\ {e.Slot : e \in PairLog} = {0, 1, 2}
  /\ DistIndex = 0

\* C9: the failure flag FilesResult is only ever written, to false, by the
\* per-file workers (those of the failed files) and is never read during the
\* parallel per-file phase; it is read once, after all workers have joined,
\* and the value read is false exactly when a file failed reading or
\* cleansing, whatever the interleaving.
C9_FlagReadAfterJoin ==
  /\ FlagWriters \subseteq Failed
  /\ FilesResult = (FlagWriters = {})
  /\ pc = "files" => FlagReads = <<>>
  /\ pc # "files" =>
       /\ Len(FlagReads) = 1
       /\ \A k \in DOMAIN FileState : FileState[k] = "done"
       /\ FlagWriters = Failed
       /\ (FlagReads[1] = FALSE) <=> (Failed # {})

\* Two of the files failed, both workers have written the flag, and the
\* flag was read as false after the loop.
C9_Witness ==
  /\ pc = "pairs"
  /\ Cardinality(Failed) = 2
  /\ FlagWriters = Failed
  /\ FlagReads = <<FALSE>>
  /\ NumFiles = (argc - 1) - 2

\* The line of the pair of ranks p[1] < p[2] among the survivors S.
ExpectedLine(S, p) ==
  [Index1 |-> S[p[1]],
   Index2 |-> S[p[2]],
   Score  |-> FormatF(ArgScore(S[p[1]], S[p[2]]))]

\* The pair of M files that is the n-th in anchor-major order, from 0.
PairOfRank(M, n) ==
  CHOOSE p \in (0..(M - 1)) \X (0..(M - 1)) :
    p[1] < p[2] /\ PairRank(M, p[1], p[2]) = n

\* The lines of the pairs of the survivors S in anchor-major order.
ExpectedLines(S, M) ==
  [n \in 1..((M * (M - 1)) \div 2) |-> ExpectedLine(S, PairOfRank(M, n - 1))]

ExpectedOutput ==
  ExpectedLines(SortedFrom(Survivors, 0), Cardinality(Survivors))

\* C10: standard output is the same under every thread schedule: exactly
\* M*(M-1)/2 lines for M surviving files, in anchor-major order, each with
\* the two files' argument indices, the first the smaller, and the score
\* stored for that pair.  Said of the emission loop: it is never ended by
\* its assertion, the element of Ratings it prints for a pair is the one
\* the pair's score was stored in, and it ends with M*(M-1)/2 lines printed
\* (DistIndex counts them).
C10_LinePerPair ==
  /\ pc # "abort"
  /\ (pc = "emit" /\ File1Index < NumFiles /\ File2Index < NumFiles) =>
       DistIndex = PairSlot(NumFiles, File1Index,
                            File2Index - (File1Index + 1))
  /\ pc = "emitted" => 2 * DistIndex = NumFiles * (NumFiles - 1)

\* The same for the file counts of MainSpec, with the lines themselves:
\* what is printed is a prefix of the expected lines, and all of them at the
\* end, under every interleaving of the workers.
Output_BelowWrap ==
  /\ pc \in {"files", "pairs"} => Output = <<>>
  /\ pc = "emit" =>
       /\ Len(Output) = DistIndex
       /\ Len(Output) <= Len(ExpectedOutput)
       /\ Output = SubSeq(ExpectedOutput, 1, Len(Output))
  /\ pc \in {"emitted", "exit"} => Output = ExpectedOutput
  /\ \A n \in 1..Len(Output) : Output[n].Index1 < Output[n].Index2

\* Four files of which the first failed: the three lines of the other three
\* are out.
Output_Reached ==
  /\ pc = "exit"
  /\ argc = 5
  /\ Failed = {0}
  /\ Len(Output) = 3
  /\ Output[1].Index1 = 1
  /\ Output[3].Index2 = 3

(***************************************************************************)
(* LimitSpec: a build whose SC_MAX_LINE_LENGTH (ScCommon.h lines 26-28, a  *)
(* macro the build may set) is LineLimit.  A file is cleansed and indexed  *)
(* by ScInitialiseCleanseFile and, when that returned true, handed to      *)
(* ScLevenshteinSwap as both files, as ScLlvmFuzzing.c and ScMain.c do     *)
(* with the files that passed.                                             *)
(***************************************************************************)
\* SC_MAX_LINE_LENGTH of the build: the entries of the initial row and of
\* the scratch row.
LineLimit == 2

\* Byte strings the inputs are put together from.
LimitAtoms == { <<"x">>, <<NL>>, <<SPACE>>, <<";">> }

\* Inputs long enough to hold a line two bytes over the limit.
LimitInputs ==
  {Concat(ss) : ss \in NonEmptySeqsUpTo(LimitAtoms, LineLimit + 2)}

\* ScDistances.c lines 50-55, 88 and 103: the entries of MatrixTop and of
\* MatrixScratch a call reads or writes.
LevRowAccess(Str1Length, Str2Length) ==
  IF Str1Length > 0 THEN 0..(Str2Length - 1) ELSE {Str2Length - 1}

\* ScCommon.c lines 82-137: the entries of the two rows the calls made for
\* the lines of Anchor and the lines in their windows of Target touch.
SwapRowAccess(Anchor, Target, Radius) ==
  UNION { LevRowAccess(Anchor.LinesInfo.Lines[Line1Index + 1].Length,
                       Target.LinesInfo.Lines[Line2Index + 1].Length) :
            <<Line1Index, Line2Index>> \in
              { c \in (0..(Anchor.LinesInfo.NumLines - 1))
                        \X (0..(Target.LinesInfo.NumLines - 1)) :
                  /\ c[2] >= SwapStartIndex(c[1], Radius)
                  /\ c[2] < SwapTopIndex(c[1], Target.LinesInfo.NumLines,
                                         Radius) } }

ScLevenshteinSwapAccess(F1, F2, Radius) ==
  SwapRowAccess(SwapOrder(F1, F2).Anchor, SwapOrder(F1, F2).Target, Radius)

LimitInit ==
  /\ pc = "limit_file"
  /\ FileType \in ScCleanseConfigTypeMin..ScCleanseConfigTypeMax
  /\ Input \in LimitInputs
  /\ Cleansed = None
  /\ Recleansed = None
  /\ DistIdle
  /\ SwapIdle
  /\ IndexIdle
  /\ MainIdle

\* ScInitialiseCleanseFile on the bytes read.
LimitInitialise ==
  /\ pc = "limit_file"
  /\ \E Allocated \in BOOLEAN :
       Cleansed' = FileInitialisedUpTo(
                     ScCleanseInput(Input, Len(Input),
                                    gScCleanseConfigs[FileType]),
                     Allocated, LineLimit)
  /\ pc' = "limit_cleansed"
  /\ UNCHANGED <<FileType, Input, Recleansed, distVars, swapVars, indexVars,
                 mainVars>>

\* The scorer's arguments and result for the file that passed.
LimitScored(F) ==
  /\ File1' = F
  /\ File2' = F
  /\ NumLinesSwap' = SC_NUM_LINES_SWAP
  /\ Score12' = ScLevenshteinSwap(F, F, SC_NUM_LINES_SWAP)
  /\ Score21' = None

\* ScLevenshteinSwap on the file, which is only called when
\* ScInitialiseCleanseFile returned true.
LimitScore ==
  /\ pc = "limit_cleansed"
  /\ Cleansed.Result
  /\ LimitScored([Buffer    |-> Cleansed.Buffer,
                  Length    |-> Cleansed.Length,
                  LinesInfo |-> Cleansed.LinesInfo])
  /\ pc' = "limit_scored"
  /\ UNCHANGED <<distVars, cleanseVars, indexVars, mainVars>>

LimitNext == LimitInitialise \/ LimitScore

LimitSpec == LimitInit /\ [][LimitNext]_vars

\* Where the lines of b start and end: before b, at each new line, after b.
LineBreaks(b) == {0, Len(b) + 1} \cup {i \in 1..Len(b) : b[i] = NL}

\* The lengths of the lines of b, the empty ones too.
LineLengths(b) ==
  { q - p - 1 :
      <<p, q>> \in { c \in LineBreaks(b) \X LineBreaks(b) :
                       /\ c[1] < c[2]
                       /\ \A r \in LineBreaks(b) : ~(c[1] < r /\ r < c[2]) } }

\* Every line of the file is non-empty and at most LineLimit bytes long.
LinesWithinLimit(F) ==
  \A k \in 1..F.LinesInfo.NumLines :
    /\ F.LinesInfo.Lines[k].Length > 0
    /\ F.LinesInfo.Lines[k].Length <= LineLimit

\* C11: ScInitialiseCleanseFile returns false for every file whose cleansed
\* content is empty or has a line longer than SC_MAX_LINE_LENGTH, so every
\* file that reaches ScLevenshteinSwap has only non-empty lines of at most
\* SC_MAX_LINE_LENGTH bytes, and no access to the initial row or to the
\* scratch row, both of SC_MAX_LINE_LENGTH entries, is out of bounds.
C11_LongOrEmptyRejected ==
  /\ pc \in {"limit_cleansed", "limit_scored"} =>
       /\ Cleansed.Length = 0 => ~Cleansed.Result
       /\ (\E l \in LineLengths(Bytes(Cleansed.Buffer, Cleansed.Length)) :
             l > LineLimit) => ~Cleansed.Result
  /\ pc = "limit_scored" =>
       /\ LinesWithinLimit(File1)
       /\ LinesWithinLimit(File2)
       /\ ScLevenshteinSwapAccess(File1, File2, NumLinesSwap)
            \subseteq 0..(LineLimit - 1)
       /\ Score12.AssertOk

\* A file whose cleansed content is one line, one byte over the limit, was
\* rejected.
C11_Witness ==
  /\ pc = "limit_cleansed"
  /\ ~Cleansed.Result
  /\ Cleansed.Length = LineLimit + 1
  /\ LineLengths(Bytes(Cleansed.Buffer, Cleansed.Length)) = {LineLimit + 1}

\* The score is a finite double that is at most 1: it is
\* 1 - TotalDiff / TotalLength with a TotalLength that is not 0 and that
\* has not wrapped around, being at most MostLength.
FiniteAtMostOne(Score, MostLength) ==
  /\ ~Score.Infinity
  /\ Score.TotalLength > 0
  /\ Score.TotalLength <= MostLength
  /\ Score.TotalDiff >= 0
  /\ Score.AssertOk

\* No sum of best-match lengths of the two files can be larger: one length,
\* at most the longest line, for each line of the file with fewer lines.
MostTotalLength(F1, F2) ==
  SC_MIN(F1.LinesInfo.NumLines, F2.LinesInfo.NumLines)
    * SC_MAX(F1.LinesInfo.MaxLineLength, F2.LinesInfo.MaxLineLength)

\* What lines 162-174 return when the running total is TotalLength and the
\* best match of the line has the length MatchLength.
ReturnedAfterAdding(TotalLength, MatchLength) ==
  SwapScore(
    SwapAccumulate([Line1Index |-> 0, TotalDiff |-> 0,
                    TotalLength |-> TotalLength, MatrixScratch |-> EmptyRow,
                    Overflow |-> FALSE, AssertOk |-> TRUE],
                   [Line2Index |-> 1, BestScore |-> Quotient(0, 1),
                    BestMatch |-> 0, MatchLength |-> MatchLength,
                    MatrixScratch |-> EmptyRow, AssertOk |-> TRUE]))

\* C12: ScLevenshteinSwap returns the sentinel, positive infinity, exactly
\* when adding a best-match length to the running total length overflows
\* size_t, and a finite score of at most 1 in every other case.  The total
\* of two files is a sum of at most MostTotalLength, which is far from
\* SIZE_MAX, so no addition overflows and every score is finite; lines
\* 162-165 give the sentinel for the totals that an addition would overflow,
\* and only for those.
C12_SentinelIffOverflow ==
  /\ pc \in {"swap_backward", "swap_done"} =>
       FiniteAtMostOne(Score12, MostTotalLength(File1, File2))
  /\ pc = "swap_done" =>
       FiniteAtMostOne(Score21, MostTotalLength(File1, File2))
  /\ \A MatchLength \in 1..MaxFileLen :
       /\ \A k \in 0..(MatchLength - 1) :
            ReturnedAfterAdding(SIZE_MAX - k, MatchLength).Infinity
       /\ ~ReturnedAfterAdding(SIZE_MAX - MatchLength, MatchLength).Infinity
       /\ ~ReturnedAfterAdding(0, MatchLength).Infinity

\* Two files of different lines have been scored: the score is finite and
\* below 1.
C12_Witness ==
  /\ pc = "swap_done"
  /\ ~Score12.Infinity
  /\ Score12.TotalDiff > 0
  /\ Score12.TotalLength = MostTotalLength(File1, File2)
  /\ File1.LinesInfo.NumLines = 2

\* The index of the C profile in gScCleanseConfigs.
ScCleanseConfigTypeC == ScCleanseConfigTypeMin

\* C13: cleansing the buffer "int   x ;  // note\n" under the C profile
\* yields a single line consisting of "x".
C13_StatementYieldsX ==
  (pc \in {"cleansed", "recleansed"} /\ Input = StatementInput
     /\ FileType = ScCleanseConfigTypeC) =>
    Bytes(Cleansed.Buffer, Cleansed.Length) = Chars("x")

\* C13, amended: cleansing the buffer "int   x ;  // note\n" under the C
\* profile yields a single line consisting of "intx".
C13_StatementYieldsIntX ==
  (pc \in {"cleansed", "recleansed"} /\ Input = StatementInput
     /\ FileType = ScCleanseConfigTypeC) =>
    /\ Bytes(Cleansed.Buffer, Cleansed.Length) = Chars("intx")
    /\ Cleansed.Result =>
         /\ Cleansed.LinesInfo.NumLines = 1
         /\ Cleansed.LinesInfo.Lines[1] = [Start |-> 0, Length |-> 4]

\* The statement has been cleansed under the C profile and indexed: one
\* line.
C13_Witness ==
  /\ pc = "cleansed"
  /\ Input = StatementInput
  /\ FileType = ScCleanseConfigTypeC
  /\ Cleansed.Result
  /\ Cleansed.LinesInfo.NumLines = 1
  /\ Cleansed.Length = 4

\* The files main goes on with are the survivors, in argument order, each
\* with its buffer and its table of lines.
OnlyFailedExcluded ==
  /\ NumFiles = Cardinality(Survivors)
  /\ \A k \in 0..(NumFiles - 1) :
       /\ Files[k].Reserved = SortedFrom(Survivors, 0)[k]
       /\ Files[k].Buffer.Ptr = IF pc = "exit" THEN "freed" ELSE "heap"

\* The pairs of argument indices the lines printed so far carry.
PairsEmitted == {<<Output[n].Index1, Output[n].Index2>> : n \in 1..Len(Output)}

\* Nothing has ended the run early, a failed file is left out and nothing
\* else is, and at the end one line has been printed for every pair of
\* survivors.
ErrorsRecovered ==
  /\ pc \in {"files", "pairs", "emit", "emitted", "exit"}
  /\ pc # "files" => OnlyFailedExcluded
  /\ pc \in {"emitted", "exit"} =>
       /\ PairsEmitted = {p \in Survivors \X Survivors : p[1] < p[2]}
       /\ 2 * Len(Output) = NumFiles * (NumFiles - 1)
       /\ \A e \in PairLog : e.Slot \in DOMAIN Ratings

\* Short of the return main is never at a point it cannot go on from: a
\* worker of the parallel loop at hand has work left or the loop is over,
\* and the serial code after it can run.
GoesOn ==
  /\ pc = "files" =>
       \/ \E k \in DOMAIN FileState : FileState[k] \in {"read", "failed"}
       \/ \A k \in DOMAIN FileState : FileState[k] = "done"
  /\ pc = "pairs" =>
       \/ PairIterations(NumFiles) \ PairsRun # {}
       \/ PairsRun = PairIterations(NumFiles)
  /\ pc \in {"emit", "emitted"} =>
       ENABLED (Emit \/ EmitAnchor \/ EmitFinish \/ Exit)

StartInit ==
  /\ pc = "main"
  /\ argc \in 1..(MaxFiles + 1)
  /\ NumFiles = 0
  /\ Files = <<>>
  /\ FileState = <<>>
  /\ Failed = {}
  /\ FilesResult = TRUE
  /\ FlagWriters = {}
  /\ FlagReads = <<>>
  /\ Ratings = <<>>
  /\ PairLog = {}
  /\ Output = <<>>
  /\ Heap = [k \in 0..(argc - 2) |-> HeapNone]
  /\ File1Index = None
  /\ File2Index = None
  /\ DistIndex = None
  /\ EmitAssertOk = None
  /\ DistIdle
  /\ SwapIdle
  /\ CleanseIdle

\* Lines 53-56: too few arguments.
Usage ==
  /\ pc = "main"
  /\ argc < 3
  /\ pc' = "usage"
  /\ UNCHANGED <<mainVars, indexVars, distVars, swapVars, cleanseVars>>

\* Line 96 as the two calls of malloc left it.
AfterMalloc(FilesAllocated, RatingsAllocated) ==
  CASE FilesAllocated /\ RatingsAllocated   -> "allocated"
    [] ~FilesAllocated /\ RatingsAllocated  -> "files_null"
    [] FilesAllocated /\ ~RatingsAllocated  -> "ratings_null"
    [] OTHER                                -> "both_null"

\* Lines 60-94: NumFiles is set and the two arrays are asked for.
Allocate ==
  /\ pc = "main"
  /\ ~(argc < 3)
  /\ NumFiles' = IF argc - 1 > SC_MAX_NUM_FILES THEN SC_MAX_NUM_FILES
                                               ELSE argc - 1
  /\ \E FilesAllocated \in BOOLEAN, RatingsAllocated \in BOOLEAN :
       pc' = AfterMalloc(FilesAllocated, RatingsAllocated)
  /\ UNCHANGED <<mainVars, File1Index, File2Index, DistIndex, EmitAssertOk,
                 distVars, swapVars, cleanseVars>>

\* Variant: the run returns 0 after a NULL.
AllocationFailed_ReturnsZero ==
  /\ pc \in {"files_null", "ratings_null", "both_null"}
  /\ pc' = "exit"
  /\ UNCHANGED <<mainVars, indexVars, distVars, swapVars, cleanseVars>>

\* Lines 96-101: a NULL ends the run with -1.
AllocationFailed ==
  /\ pc \in {"files_null", "ratings_null", "both_null"}
  /\ pc' = "alloc_failed"
  /\ UNCHANGED <<mainVars, indexVars, distVars, swapVars, cleanseVars>>

\* Lines 96-105: both arrays are there and the per-file loop starts.
AllocationDone ==
  /\ pc = "allocated"
  /\ Files' = [k \in 0..(NumFiles - 1) |-> UninitFile]
  /\ FileState' = [k \in 0..(NumFiles - 1) |-> "read"]
  /\ FilesResult' = TRUE
  /\ pc' = "files"
  /\ UNCHANGED <<argc, Failed, FlagWriters, FlagReads, Ratings, PairLog,
                 Output, Heap, indexVars, distVars, swapVars, cleanseVars>>

StartNext == Usage \/ Allocate \/ AllocationFailed \/ AllocationDone

StartSpec == StartInit /\ [][StartNext \/ MainNext]_vars

\* The files ScReadFile returned NULL for (ScCommon.c:284-286): nothing was
\* stored in their entry but the NULL.
FilesNotRead ==
  {k \in DOMAIN Files : Files[k].Buffer = [Ptr |-> "NULL", Bytes |-> <<>>]}

AllocationIsNull == pc \in {"files_null", "ratings_null", "both_null"}

\* C15 as stated: an environment error aborts the overall run with a
\* non-zero exit status, both when an allocation fails and when an input file
\* cannot be read; so no run in which one of the two happened returns 0.
C15_EnvironmentErrorsAbort ==
  (AllocationIsNull \/ FilesNotRead # {}) => pc # "exit"

\* C15 amended: when the allocation of the file array or of the rating matrix
\* fails the run ends with the non-zero status of line 100, and only then; a
\* file that cannot be read does not abort the run, it is left out like a
\* file with a content error and the run goes on to its end.
C15_AllocationAbortsReadIsRecovered ==
  /\ [][(AllocationIsNull => pc' = "alloc_failed")
        /\ (pc' = "alloc_failed" => AllocationIsNull)]_vars
  /\ [](FilesNotRead # {} => ErrorsRecovered /\ GoesOn)

C15_Witness ==
  /\ pc = "exit"
  /\ argc = 4
  /\ FilesNotRead = {2}
  /\ Failed = {2}
  /\ NumFiles = 2
  /\ Len(Output) = 1

\* The phases of main after the compaction of lines 143-155.
Pruned == pc \in {"pairs", "emit", "emitted", "exit"}

\* C16 as stated: Ratings has exactly N * (N - 1) / 2 slots, N the number of
\* files left after the failed ones were pruned.
C16_SizedToPrunedPairs ==
  Pruned => 2 * RatingsSlots(argc) = NumFiles * (NumFiles - 1)

\* C16 amended: Ratings has exactly N * (N + 1) / 2 slots, N the number of
\* files at line 94, before any file is read; the pruning of failed files
\* leaves that size as it is, and the scores written stay inside it.
C16_SizedToInitialGaussSum ==
  /\ pc \in {"allocated", "files"} =>
       2 * RatingsSlots(argc) = NumFiles * (NumFiles + 1)
  /\ Pruned =>
       /\ 2 * RatingsSlots(argc) =
            (NumFiles + Cardinality(Failed))
              * (NumFiles + Cardinality(Failed) + 1)
       /\ DOMAIN Ratings \subseteq 0..(RatingsSlots(argc) - 1)
       /\ 2 * Cardinality(DOMAIN Ratings) <= NumFiles * (NumFiles - 1)

C16_Witness ==
  /\ pc = "exit"
  /\ argc = 5
  /\ Failed = {1}
  /\ NumFiles = 3
  /\ RatingsSlots(argc) = 10
  /\ DOMAIN Ratings = 0..2

(***************************************************************************)
(* ReadSpec: one call of ScReadCleansedFile, ScCommon.c lines 223-296, for *)
(* a file name, the bytes the file holds and a profile or the wildcard.    *)
(* Input is the file: its name and its bytes.                              *)
(***************************************************************************)
ScCleanseConfigTypeJava == ScCleanseConfigTypeC + 1

ScCleanseConfigTypeFSharp == ScCleanseConfigTypeJava + 1

\* Names with an extension of each profile, with an extension of none, with
\* no '.', with two, with one at the end, and with the extension of a
\* profile as a prefix, a suffix or in the other case.
ReadNames ==
  { Chars("a.c"), Chars("a.cpp"), Chars("a.h"), Chars("a.hpp"),
    Chars("b.java"), Chars("d.fs"), Chars("d.fsi"), Chars("d.fsx"),
    Chars("d.fsscript"), Chars("notes"), Chars("c"), Chars("java"),
    Chars("d.x.fs"), Chars("a.c.txt"), Chars("a."), Chars(".h"),
    Chars("a.cs"), Chars("a.C"), Chars("b.ava"), Chars("a/b.c/d") }

\* Bytes that every profile cleanses to something else, and bytes that all
\* cleanse alike.
ReadContents ==
  { Chars("//a") \o <<NL>> \o Chars("byte;const"), Chars("xy") }

ReadInit ==
  /\ pc = "read_file"
  /\ FileType \in ScCleanseConfigTypeMin..ScCleanseConfigTypeMax
  /\ Input \in [FileName : ReadNames, Content : ReadContents]
  /\ Cleansed = None
  /\ Recleansed = None
  /\ DistIdle
  /\ SwapIdle
  /\ IndexIdle
  /\ MainIdle

ReadCleansed ==
  /\ pc = "read_file"
  /\ \E ReadOk \in BOOLEAN, Allocated \in BOOLEAN :
       Cleansed' = ScReadCleansedFile(Input.FileName, FileType, ReadOk,
                                      Input.Content, Allocated)
  /\ pc' = "read_done"
  /\ UNCHANGED <<FileType, Input, Recleansed, distVars, swapVars, indexVars,
                 mainVars>>

ReadNext == ReadCleansed

ReadSpec == ReadInit /\ [][ReadNext]_vars

\* The suffix of a name after its last '.', the whole name when it has none.
SuffixAfterLastDot(FileName) ==
  SubSeq(FileName,
         (CHOOSE i \in 0..Len(FileName) :
            /\ i > 0 => FileName[i] = "."
            /\ \A j \in (i + 1)..Len(FileName) : FileName[j] # ".") + 1,
         Len(FileName))

\* The extension is one of the extensions listed by the profile.
Lists(Profile, FileExt) ==
  \E n \in DOMAIN Profile.FileExts : Chars(Profile.FileExts[n]) = FileExt

ProfileInOrder(FileExt) ==
  IF Lists(mScCleanseConfigC, FileExt) THEN mScCleanseConfigC
  ELSE IF Lists(mScCleanseConfigJava, FileExt) THEN mScCleanseConfigJava
  ELSE IF Lists(mScCleanseConfigFSharp, FileExt) THEN mScCleanseConfigFSharp
  ELSE mScCleanseConfigUnknown

ExplicitProfile(Type) ==
  CASE Type = ScCleanseConfigTypeC      -> mScCleanseConfigC
    [] Type = ScCleanseConfigTypeJava   -> mScCleanseConfigJava
    [] Type = ScCleanseConfigTypeFSharp -> mScCleanseConfigFSharp

\* What cleansing the bytes under a profile leaves.
CleansedUnder(Content, Profile) ==
  Bytes(ScCleanseInput(Content, Len(Content), Profile).Buffer,
        ScCleanseInput(Content, Len(Content), Profile).Length)

\* C17: with the wildcard ScCleanseConfigTypeMax the file is cleansed under
\* the first of the profiles C, Java, F# that lists the extension of its
\* name, and under the unknown profile when none does; with an explicit
\* profile it is cleansed under that profile whatever its name.
C17_ProfileSelected ==
  (pc = "read_done" /\ Cleansed.Result) =>
    Bytes(Cleansed.File.Buffer.Bytes, Cleansed.File.Length) =
      CleansedUnder(Input.Content,
                    IF FileType = ScCleanseConfigTypeMax
                      THEN ProfileInOrder(SuffixAfterLastDot(Input.FileName))
                      ELSE ExplicitProfile(FileType))

\* A name with two '.' read with the wildcard, holding bytes that the four
\* profiles cleanse in four ways.
C17_Witness ==
  /\ pc = "read_done"
  /\ Cleansed.Result
  /\ FileType = ScCleanseConfigTypeMax
  /\ Input.FileName = Chars("d.x.fs")
  /\ Bytes(Cleansed.File.Buffer.Bytes, Cleansed.File.Length) =
       CleansedUnder(Input.Content, mScCleanseConfigFSharp)
  /\ Cardinality({CleansedUnder(Input.Content, gScCleanseConfigs[t]) :
                    t \in ScCleanseConfigTypeMin..ScCleanseConfigTypeMax}) = 4

(***************************************************************************)
(* UnknownSpec: CleanseSpec for the unknown profile alone, on inputs made  *)
(* of every byte the third pass names and of bytes that are a comment      *)
(* marker, a new line character or a generalisee in the other profiles.    *)
(***************************************************************************)
UnknownAtoms ==
  { <<SPACE>>, <<TAB>>, <<VT>>, <<CR>>, <<NL>>, Chars(";"), Chars("//"),
    Chars("/*"), Chars("double") }

UnknownInputs ==
  {Concat(ss) : ss \in NonEmptySeqsUpTo(UnknownAtoms, MaxAtoms)}

UnknownInit ==
  /\ pc = "cleanse_file"
  /\ FileType = ScCleanseConfigTypeMax
  /\ Input \in UnknownInputs
  /\ Cleansed = None
  /\ Recleansed = None
  /\ DistIdle
  /\ SwapIdle
  /\ IndexIdle
  /\ MainIdle

UnknownSpec == UnknownInit /\ [][CleanseNext]_vars

\* The bytes of b without the spaces, tabs and vertical tabs.
WithoutBlanks(b) == SelectSeq(b, LAMBDA c : c \notin {SPACE, TAB, VT})

\* The bytes of b with a new line for every carriage return.
ReturnsAsNewLines(b) == [i \in 1..Len(b) |-> IF b[i] = CR THEN NL ELSE b[i]]

\* The bytes of b with one new line for every run of new lines.
RECURSIVE RunsCollapsed(_)
RunsCollapsed(b) ==
  IF Len(b) <= 1
    THEN b
    ELSE IF b[1] = NL /\ b[2] = NL
           THEN RunsCollapsed(Tail(b))
           ELSE <<b[1]>> \o RunsCollapsed(Tail(b))

\* The bytes of b without the new lines it starts and ends with.
RECURSIVE EndsStripped(_)
EndsStripped(b) ==
  IF b = <<>>
    THEN b
    ELSE IF b[1] = NL
           THEN EndsStripped(Tail(b))
           ELSE IF b[Len(b)] = NL
                  THEN EndsStripped(SubSeq(b, 1, Len(b) - 1))
                  ELSE b

Canonicalised(b) ==
  EndsStripped(RunsCollapsed(ReturnsAsNewLines(WithoutBlanks(b))))

\* C18: under the unknown profile the cleansed bytes are the input with
\* every space, tab and vertical tab deleted, every carriage return turned
\* into a new line, every run of new lines collapsed to one and the new
\* lines at both ends removed; no comment, line or token is taken out and no
\* other byte counts as a new line.
C18_UnknownCanonicalises ==
  pc \in {"cleansed", "recleansed"} =>
    Bytes(Cleansed.Buffer, Cleansed.Length) = Canonicalised(Input)

\* An input with a comment marker, a tab, a carriage return and a
\* generalisee of the three language profiles.
C18_Witness ==
  /\ pc = "cleansed"
  /\ Input = Chars("//") \o <<TAB, CR>> \o Chars("double")
  /\ Bytes(Cleansed.Buffer, Cleansed.Length) =
       Chars("//") \o <<NL>> \o Chars("double")

(***************************************************************************)
(* LinesSpec: one call of ScStrGetLineInfo, ScStringMisc.c lines 33-120,   *)
(* on a non-empty buffer of any content.  Input is the buffer, Cleansed    *)
(* what the call has in its locals when it returns.                        *)
(***************************************************************************)
\* Longest buffer handed to ScStrGetLineInfo.
MaxBufLen == 5

LinesAlphabet == {"a", ";", NL}

LinesInputs == NonEmptySeqsUpTo(LinesAlphabet, MaxBufLen)

\* __builtin_mul_overflow on size_t, ScSafeInt.h lines 99-100, for sizes
\* whose representatives have a product TLC can hold: the wrapped product
\* and whether the product overflowed size_t.
ScSafeMulSize(A, B) ==
  [Overflow |-> IF A >= 0 /\ B >= 0 THEN FALSE
                ELSE IF A < 0 /\ B < 0 THEN TRUE
                ELSE SC_MIN(A, B) < 0 /\ SC_MAX(A, B) > 1,
   Value    |-> A * B]

\* sizeof(sc_str_line_info_t): a pointer and a size_t of 64 bits.
SizeofStrLineInfo == 16

\* sizeof(sc_str_lines_info_t): two size_t of 64 bits before the flexible
\* array.
SizeofStrLinesInfo == 16

\* Lines 53-66: the size of the table for NumLines lines.
StrLinesInfoSize(NumLines) ==
  [Overflow |->
     \/ ScSafeMulSize(NumLines, SizeofStrLineInfo).Overflow
     \/ ScSafeAddSize(SizeofStrLinesInfo,
                      ScSafeMulSize(NumLines, SizeofStrLineInfo).Value).Overflow,
   Value    |->
     ScSafeAddSize(SizeofStrLinesInfo,
                   ScSafeMulSize(NumLines, SizeofStrLineInfo).Value).Value]

\* Lines 33-120 for the size computed and for whether malloc returned memory:
\* the locals at the return, and NULL or the table returned.
LineInfoReturned(String, StringLength, Size, Allocated) ==
  [StrLinesInfoSize |-> Size,
   Malloc           |-> IF Size.Overflow THEN "not called"
                        ELSE IF Allocated THEN "heap" ELSE "NULL",
   Null             |-> Size.Overflow \/ ~Allocated,
   StrLinesInfo     |-> IF Size.Overflow \/ ~Allocated
                          THEN <<>>
                          ELSE ScStrGetLineInfo(String, StringLength)]

LinesInit ==
  /\ pc = "lines_call"
  /\ Input \in LinesInputs
  /\ FileType = None
  /\ Cleansed = None
  /\ Recleansed = None
  /\ DistIdle
  /\ SwapIdle
  /\ IndexIdle
  /\ MainIdle

GetLineInfo ==
  /\ pc = "lines_call"
  /\ \E Allocated \in BOOLEAN :
       Cleansed' = LineInfoReturned(
                     Input, Len(Input),
                     StrLinesInfoSize(CountLines(Input, Len(Input), 0, 1)),
                     Allocated)
  /\ pc' = "lines_done"
  /\ UNCHANGED <<FileType, Input, Recleansed, distVars, swapVars, indexVars,
                 mainVars>>

LinesNext == GetLineInfo

LinesSpec == LinesInit /\ [][LinesNext]_vars

\* The offsets of the new lines of b, in order.
NewLineOffsets(b) == SortedFrom({i - 1 : i \in {j \in 1..Len(b) : b[j] = NL}}, 1)

\* Span k, counted from 1, starts at the start of b or right after new line
\* k - 1 and ends before new line k or at the end of b.
SpanStart(b, k) == IF k = 1 THEN 0 ELSE NewLineOffsets(b)[k - 1] + 1

SpanEnd(b, k) ==
  IF k = Len(NewLineOffsets(b)) + 1 THEN Len(b) ELSE NewLineOffsets(b)[k]

\* C19: for every non-empty buffer ScStrGetLineInfo returns one span more
\* than the buffer has new lines, in buffer order, each from right after a
\* new line (the first from the start) up to the next new line (the last up
\* to the end), with MaxLineLength the largest of their lengths; it returns
\* NULL only when the size computation overflows or malloc returns NULL,
\* whatever the bytes are.
C19_LinesIndexed ==
  pc = "lines_done" =>
    /\ Cleansed.Null <=>
         (Cleansed.StrLinesInfoSize.Overflow \/ Cleansed.Malloc = "NULL")
    /\ ~Cleansed.StrLinesInfoSize.Overflow
    /\ Cleansed.StrLinesInfoSize.Value =
         SizeofStrLinesInfo
           + (Len(NewLineOffsets(Input)) + 1) * SizeofStrLineInfo
    /\ ~Cleansed.Null =>
         /\ Cleansed.StrLinesInfo.NumLines = Len(NewLineOffsets(Input)) + 1
         /\ Len(Cleansed.StrLinesInfo.Lines) = Cleansed.StrLinesInfo.NumLines
         /\ \A k \in 1..Cleansed.StrLinesInfo.NumLines :
              /\ Cleansed.StrLinesInfo.Lines[k].Start = SpanStart(Input, k)
              /\ Cleansed.StrLinesInfo.Lines[k].Length =
                   SpanEnd(Input, k) - SpanStart(Input, k)
         /\ \A k \in 1..Cleansed.StrLinesInfo.NumLines :
              Cleansed.StrLinesInfo.Lines[k].Length
                <= Cleansed.StrLinesInfo.MaxLineLength
         /\ \E k \in 1..Cleansed.StrLinesInfo.NumLines :
              Cleansed.StrLinesInfo.Lines[k].Length
                = Cleansed.StrLinesInfo.MaxLineLength

\* A buffer that starts with a new line, has two in a row and whose longest
\* line is the last.
C19_Witness ==
  /\ pc = "lines_done"
  /\ Input = <<NL, NL, "a", ";">>
  /\ ~Cleansed.Null
  /\ Cleansed.StrLinesInfo.NumLines = 3
  /\ Cleansed.StrLinesInfo.MaxLineLength = 2
  /\ Cleansed.StrLinesInfo.Lines[3] = [Start |-> 2, Length |-> 2]

(***************************************************************************)
(* Modules/ScSafeInt.c: the custom overflow-checked primitives.            *)
(*                                                                         *)
(* A uint32_t is the sequence of its 4 bytes, a uint64_t and a size_t that *)
(* of its 8 bytes, lowest byte first, so that every value of the type is   *)
(* there at its full width.  The operators on bytes are those of C on the  *)
(* unsigned type: they wrap.                                               *)
(***************************************************************************)
ByteBase == 256

Zeros(n) == [i \in 1..n |-> 0]

\* The exact sum of two numbers of as many bytes, one byte longer.
RECURSIVE AddBytes(_, _, _)
AddBytes(A, B, Carry) ==
  IF A = <<>>
    THEN <<Carry>>
    ELSE <<(Head(A) + Head(B) + Carry) % ByteBase>>
           \o AddBytes(Tail(A), Tail(B),
                       (Head(A) + Head(B) + Carry) \div ByteBase)

\* A + B on the unsigned type of the two.
WrapAdd(A, B) == SubSeq(AddBytes(A, B, 0), 1, Len(A))

\* The bytes of A - B, and the borrow out of the highest as one more byte.
RECURSIVE SubBytes(_, _, _)
SubBytes(A, B, Borrow) ==
  IF A = <<>>
    THEN <<Borrow>>
    ELSE <<(ByteBase + Head(A) - Head(B) - Borrow) % ByteBase>>
           \o SubBytes(Tail(A), Tail(B),
                       IF Head(A) - Head(B) - Borrow < 0 THEN 1 ELSE 0)

\* A - B on the unsigned type of the two.
WrapSub(A, B) == SubSeq(SubBytes(A, B, 0), 1, Len(A))

\* A < B for two numbers of as many bytes.
RECURSIVE LessBytes(_, _)
LessBytes(A, B) ==
  IF A = <<>>
    THEN FALSE
    ELSE IF A[Len(A)] # B[Len(B)]
           THEN A[Len(A)] < B[Len(B)]
           ELSE LessBytes(SubSeq(A, 1, Len(A) - 1), SubSeq(B, 1, Len(B) - 1))

\* B times the byte d plus Carry, one byte longer than B.
RECURSIVE MulByte(_, _, _)
MulByte(B, d, Carry) ==
  IF B = <<>>
    THEN <<Carry>>
    ELSE <<(Head(B) * d + Carry) % ByteBase>>
           \o MulByte(Tail(B), d, (Head(B) * d + Carry) \div ByteBase)

\* The exact product, of Len(A) + Len(B) bytes.
RECURSIVE MulBytes(_, _)
MulBytes(A, B) ==
  IF A = <<>>
    THEN Zeros(Len(B))
    ELSE WrapAdd(MulByte(B, Head(A), 0) \o Zeros(Len(A) - 1),
                 <<0>> \o MulBytes(Tail(A), B))

\* (uint64_t) of a uint32_t, and (uint32_t) of a uint64_t.
ToUint64(A) == A \o Zeros(4)

ToUint32(A) == SubSeq(A, 1, 4)

\* A * B on uint64_t.
WrapMul64(A, B) == SubSeq(MulBytes(A, B), 1, 8)

\* A >> 32U, A & 0xFFFFFFFFU and A << 32U on uint64_t.
ShiftRight32(A) == SubSeq(A, 5, 8) \o Zeros(4)

Low32(A) == SubSeq(A, 1, 4) \o Zeros(4)

ShiftLeft32(A) == Zeros(4) \o SubSeq(A, 1, 4)

\* SIZE_MAX of the build, as a uint64_t.
SIZE_MAX_Bytes == [i \in 1..8 |-> ByteBase - 1]

\* Lines 15-30.
ScCustomSafeAdd32(A, B) ==
  [Result |-> WrapAdd(A, B),
   Return |-> LessBytes(WrapAdd(A, B), A)]

\* Lines 32-47.
ScCustomSafeSub32(A, B) ==
  [Result |-> WrapSub(A, B),
   Return |-> ~LessBytes(WrapSub(A, B), A)]

\* Lines 49-63: the product is formed in uint64_t and compared with SIZE_MAX.
ScCustomSafeMul32(A, B) ==
  [Result |-> ToUint32(WrapMul64(ToUint64(A), ToUint64(B))),
   Return |-> LessBytes(SIZE_MAX_Bytes,
                        WrapMul64(ToUint64(A), ToUint64(B)))]

\* Lines 65-80.
ScCustomSafeAdd64(A, B) ==
  [Result |-> WrapAdd(A, B),
   Return |-> LessBytes(WrapAdd(A, B), A)]

\* Lines 82-97.
ScCustomSafeSub64(A, B) ==
  [Result |-> WrapSub(A, B),
   Return |-> ~LessBytes(WrapSub(A, B), A)]

\* Lines 120-140 for the halves of lines 120-125 and 132-134.
Mul64Return(AHi, BHi, LoBits, HiBits1, HiBits2) ==
  [Result |-> WrapAdd(LoBits, ShiftLeft32(WrapAdd(HiBits1, HiBits2))),
   Return |-> \/ (AHi # Zeros(8) /\ BHi # Zeros(8))
              \/ LessBytes(WrapAdd(LoBits,
                                   ShiftLeft32(WrapAdd(HiBits1, HiBits2))),
                           LoBits)
              \/ ShiftLeft32(HiBits1) # Zeros(8)
              \/ ShiftLeft32(HiBits2) # Zeros(8)]

\* Lines 99-141.
ScCustomSafeMul64(A, B) ==
  IF ShiftRight32(A) = Zeros(8) /\ ShiftRight32(B) = Zeros(8)
    THEN [Result |-> WrapMul64(Low32(A), Low32(B)), Return |-> FALSE]
    ELSE Mul64Return(ShiftRight32(A), ShiftRight32(B),
                     WrapMul64(Low32(A), Low32(B)),
                     WrapMul64(Low32(A), ShiftRight32(B)),
                     WrapMul64(ShiftRight32(A), Low32(B)))

\* Lines 143-158.
ScCustomSafeAddSize(A, B) ==
  [Result |-> WrapAdd(A, B),
   Return |-> LessBytes(WrapAdd(A, B), A)]

\* Lines 160-191: SIZE_MAX == UINT64_MAX in the build modelled.
ScCustomSafeMulSize(A, B) == ScCustomSafeMul64(A, B)

(***************************************************************************)
(* SafeSpec: one call of one of the custom primitives.  Input is the call, *)
(* Output what it stored in *Result and what it returned.                  *)
(***************************************************************************)
\* 2^k as a number of n bytes.
PowerOfTwo(k, n) ==
  [i \in 1..n |-> IF i = (k \div 8) + 1 THEN 2 ^ (k % 8) ELSE 0]

\* 2^k - 1 as a number of n bytes.
AllOnes(k, n) ==
  [i \in 1..n |-> IF 8 * i <= k THEN ByteBase - 1
                  ELSE IF 8 * (i - 1) < k THEN 2 ^ (k - 8 * (i - 1)) - 1
                  ELSE 0]

\* Operands of 32 bits: 0, 1, 2, 3, and the values around 2^16, 2^31, 2^32.
Operands32 ==
  { Zeros(4), PowerOfTwo(0, 4), PowerOfTwo(1, 4), AllOnes(2, 4),
    AllOnes(16, 4), PowerOfTwo(16, 4), AllOnes(31, 4), PowerOfTwo(31, 4),
    AllOnes(32, 4) }

\* Operands of 64 bits: those of 32 bits and the values around 2^32, 2^63
\* and 2^64.
Operands64 ==
  {ToUint64(A) : A \in Operands32}
    \cup { PowerOfTwo(32, 8), WrapAdd(PowerOfTwo(32, 8), PowerOfTwo(0, 8)),
           PowerOfTwo(33, 8), AllOnes(63, 8), PowerOfTwo(63, 8),
           AllOnes(64, 8) }

Primitives32 ==
  {"ScCustomSafeAdd32", "ScCustomSafeSub32", "ScCustomSafeMul32"}

Primitives64 ==
  {"ScCustomSafeAdd64", "ScCustomSafeSub64", "ScCustomSafeMul64",
   "ScCustomSafeAddSize", "ScCustomSafeMulSize"}

SafeCalls ==
  [Primitive : Primitives32, A : Operands32, B : Operands32]
    \cup [Primitive : Primitives64, A : Operands64, B : Operands64]

SafeInit ==
  /\ pc = "safe_call"
  /\ Input \in SafeCalls
  /\ Output = None
  /\ FileType = None /\ Cleansed = None /\ Recleansed = None
  /\ argc = None /\ Files = None /\ FileState = None /\ Failed = None
  /\ FilesResult = None /\ FlagWriters = None /\ FlagReads = None
  /\ Ratings = None /\ PairLog = None /\ Heap = None
  /\ DistIdle
  /\ SwapIdle
  /\ IndexIdle

Called(c) ==
  CASE c.Primitive = "ScCustomSafeAdd32"   -> ScCustomSafeAdd32(c.A, c.B)
    [] c.Primitive = "ScCustomSafeSub32"   -> ScCustomSafeSub32(c.A, c.B)
    [] c.Primitive = "ScCustomSafeMul32"   -> ScCustomSafeMul32(c.A, c.B)
    [] c.Primitive = "ScCustomSafeAdd64"   -> ScCustomSafeAdd64(c.A, c.B)
    [] c.Primitive = "ScCustomSafeSub64"   -> ScCustomSafeSub64(c.A, c.B)
    [] c.Primitive = "ScCustomSafeMul64"   -> ScCustomSafeMul64(c.A, c.B)
    [] c.Primitive = "ScCustomSafeAddSize" -> ScCustomSafeAddSize(c.A, c.B)
    [] c.Primitive = "ScCustomSafeMulSize" -> ScCustomSafeMulSize(c.A, c.B)

SafeCall ==
  /\ pc = "safe_call"
  /\ Output' = Called(Input)
  /\ pc' = "safe_done"
  /\ UNCHANGED <<argc, Files, FileState, Failed, FilesResult, FlagWriters,
                 FlagReads, Ratings, PairLog, Heap, cleanseVars, distVars,
                 swapVars, indexVars>>

SafeNext == SafeCall

SafeSpec == SafeInit /\ [][SafeNext]_vars

IsAdd(c) ==
  c.Primitive \in {"ScCustomSafeAdd32", "ScCustomSafeAdd64",
                   "ScCustomSafeAddSize"}

IsSub(c) == c.Primitive \in {"ScCustomSafeSub32", "ScCustomSafeSub64"}

IsMul(c) ==
  c.Primitive \in {"ScCustomSafeMul32", "ScCustomSafeMul64",
                   "ScCustomSafeMulSize"}

\* The result of infinite precision does not fit the type of the operands:
\* a carry out of the sum, A < B for the difference, a byte that is not 0
\* above the width in the product.
OutOfRange(c) ==
  CASE IsAdd(c) -> AddBytes(c.A, c.B, 0)[Len(c.A) + 1] # 0
    [] IsSub(c) -> LessBytes(c.A, c.B)
    [] IsMul(c) -> SubSeq(MulBytes(c.A, c.B), Len(c.A) + 1, 2 * Len(c.A))
                     # Zeros(Len(c.A))

\* The result of infinite precision modulo 2^width.
Wrapped(c) ==
  CASE IsAdd(c) -> SubSeq(AddBytes(c.A, c.B, 0), 1, Len(c.A))
    [] IsSub(c) -> SubSeq(SubBytes(c.A, c.B, 0), 1, Len(c.A))
    [] IsMul(c) -> SubSeq(MulBytes(c.A, c.B), 1, Len(c.A))

\* C20: each custom primitive stores the result wrapped to its width and
\* returns true exactly when the wrapped result differs from the result of
\* infinite precision: for a subtraction exactly when A < B, for a
\* multiplication exactly when A * B exceeds the maximum of the type.
C20_PrimitivesExact ==
  pc = "safe_done" =>
    /\ Output.Result = Wrapped(Input)
    /\ Output.Return <=> OutOfRange(Input)

(***************************************************************************)
(* PassSpec: the first two passes of ScCleanseInput, ScCleanseInput.c      *)
(* lines 438-439, one at a time.  Input is the buffer handed in, Cleansed  *)
(* what ScCleanseLines left of it, Recleansed what ScCleanseGeneralisees   *)
(* then left.                                                              *)
(***************************************************************************)
\* Most atoms a buffer of the passes is put together from.
MaxPassAtoms == 4

\* The comment markers of the C and Java profiles, whole and cut, the line
\* comment marker, the new line and the two halves of a generalisee.
PassAtoms ==
  { Chars("/*"), Chars("*/"), Chars("*"), Chars("//"), <<NL>>, Chars("dou"),
    Chars("ble") }

PassInputs ==
  {Concat(ss) : ss \in NonEmptySeqsUpTo(PassAtoms, MaxPassAtoms)}

\* Buffers with a generalisee that is the prefix of another, with one of
\* each group, with one inside a longer word and with one cut off.
GeneraliseInputs ==
  { Chars("float32"), Chars("xfloats"), Chars("const long x"),
    Chars("publicstatic"), Chars("uint64_t"), Chars("unsigne") }

PassInit ==
  /\ pc = "pass_lines"
  /\ FileType \in ScCleanseConfigTypeMin..ScCleanseConfigTypeMax
  /\ Input \in PassInputs \cup GeneraliseInputs
  /\ Cleansed = None
  /\ Recleansed = None
  /\ DistIdle
  /\ SwapIdle
  /\ IndexIdle
  /\ MainIdle

\* ScCleanseInput.c line 438.
LinesPass ==
  /\ pc = "pass_lines"
  /\ Cleansed' = ScCleanseLines(Input, Len(Input),
                                gScCleanseConfigs[FileType])
  /\ pc' = "pass_generalisees"
  /\ UNCHANGED <<FileType, Input, Recleansed, distVars, swapVars, indexVars,
                 mainVars>>

\* ScCleanseInput.c line 439.
GeneraliseesPass ==
  /\ pc = "pass_generalisees"
  /\ Recleansed' = ScCleanseGeneralisees(Cleansed.Buffer, Len(Input),
                                         gScCleanseConfigs[FileType])
  /\ pc' = "pass_whitespaces"
  /\ UNCHANGED <<FileType, Input, Cleansed, distVars, swapVars, indexVars,
                 mainVars>>

PassNext == LinesPass \/ GeneraliseesPass

PassSpec == PassInit /\ [][PassNext]_vars

\* The number of new line bytes in b.
NewLineCount(b) == Cardinality({i \in 1..Len(b) : b[i] = NL})

AfterLines == pc \in {"pass_generalisees", "pass_whitespaces"}

\* The bytes of m are in b from offset p on.
MarkerAt(b, p, m) ==
  /\ m # <<>>
  /\ p + Len(m) <= Len(b)
  /\ \A k \in 1..Len(m) : b[p + k] = m[k]

\* The offsets at which an end marker closes the comment that b opens with.
CommentEnds(b, Config) ==
  {q \in Len(Config.MultiCommentStart)..Len(b) :
     /\ MarkerAt(b, 0, Config.MultiCommentStart)
     /\ MarkerAt(b, q, Config.MultiCommentEnd)}

\* The offsets of the new lines between the two markers of the comment that
\* b opens with.
NewLinesInComment(b, Config) ==
  {i \in 1..Len(b) :
     /\ CommentEnds(b, Config) # {}
     /\ i > Len(Config.MultiCommentStart)
     /\ i <= First(CommentEnds(b, Config))
     /\ b[i] = NL}

\* C21: a multi line comment is removed by ScCleanseLines with every new
\* line between its start marker and its end marker kept, so the buffer has
\* as many new line bytes after the pass as before.
C21_CommentKeepsNewLines ==
  AfterLines =>
    /\ \A i \in NewLinesInComment(Input, gScCleanseConfigs[FileType]) :
         Cleansed.Buffer[i] = NL
    /\ CommentEnds(Input, gScCleanseConfigs[FileType]) # {} =>
         NewLineCount(Cleansed.Buffer) = NewLineCount(Input)

\* Some line drop prefix of the profile is in b from offset p on.
DropAt(b, p, Config) ==
  \E d \in 1..Len(Config.LineDropPrefixes) :
    MarkerAt(b, p, Config.LineDropPrefixes[d])

\* The 1-based place of the first new line of b after offset p, one past the
\* end of b when there is none.
LineEnd(b, p) ==
  First({i \in (p + 1)..Len(b) : b[i] = NL} \cup {Len(b) + 1})

\* The number of bytes of b up to the end of the first end marker that
\* starts at offset p or later, all of b when there is none.
CommentStop(b, p, Config) ==
  First({q + Len(Config.MultiCommentEnd) :
           q \in {r \in p..Len(b) : MarkerAt(b, r, Config.MultiCommentEnd)}}
        \cup {Len(b)})

\* The places of b, from offset p on, inside a line drop region (from a drop
\* prefix up to the next new line, which is not part of it) or inside a
\* multi line comment (from the start marker through the end marker, or
\* through the end of b).
RECURSIVE RegionsFrom(_, _, _)
RegionsFrom(b, p, Config) ==
  IF p >= Len(b)
    THEN {}
    ELSE IF DropAt(b, p, Config)
           THEN ((p + 1)..(LineEnd(b, p) - 1))
                  \cup RegionsFrom(b, LineEnd(b, p) - 1, Config)
           ELSE IF MarkerAt(b, p, Config.MultiCommentStart)
                  THEN ((p + 1)..CommentStop(
                                   b, p + Len(Config.MultiCommentStart),
                                   Config))
                         \cup RegionsFrom(
                                b,
                                CommentStop(
                                  b, p + Len(Config.MultiCommentStart),
                                  Config),
                                Config)
                  ELSE RegionsFrom(b, p + 1, Config)

\* C22: ScCleanseLines leaves the buffer as long as it was and writes
\* nothing but spaces; every byte outside the line drop regions and the
\* multi line comments is unchanged, and the assertion of line 268 holds
\* after every step, also when a marker or a comment is cut off by the end
\* of the buffer.
C22_LinesOnlyBlanksRegions ==
  AfterLines =>
    /\ Cleansed.AssertOk
    /\ Cleansed.Pos = Len(Input)
    /\ Cleansed.BufferLength = 0
    /\ Len(Cleansed.Buffer) = Len(Input)
    /\ \A i \in 1..Len(Input) :
         /\ Cleansed.Buffer[i] \in {Input[i], SPACE}
         /\ i \notin RegionsFrom(Input, 0, gScCleanseConfigs[FileType]) =>
              Cleansed.Buffer[i] = Input[i]

\* A dropped line, the new line after it kept, and a comment whose end
\* marker is cut off by the end of the buffer.
C22_Witness ==
  /\ pc = "pass_generalisees"
  /\ FileType = ScCleanseConfigTypeC
  /\ Input = Chars("//") \o <<NL>> \o Chars("/*") \o Chars("*")
  /\ Cleansed.Buffer = <<SPACE, SPACE, NL, SPACE, SPACE, SPACE>>
  /\ Cleansed.AssertOk

AfterGeneralisees == pc = "pass_whitespaces"

\* The group and the generalisee, by their places in the profile, of every
\* generalisee whose bytes are in b from offset p on.
TokensAt(b, p, Config) ==
  {m \in UNION {{<<g, t>> : t \in 1..Len(Config.Generalises[g].Generalisees)} :
                  g \in 1..Len(Config.Generalises)} :
     MarkerAt(b, p, Config.Generalises[m[1]].Generalisees[m[2]])}

\* The first of them in profile order: groups first, then generalisees.
FirstToken(S) ==
  CHOOSE m \in S :
    \A n \in S : m[1] < n[1] \/ (m[1] = n[1] /\ m[2] <= n[2])

Spaces(n) == [k \in 1..n |-> SPACE]

\* b with the Length bytes from offset p on replaced by the generaliser and
\* spaces.
TokenReplaced(b, p, Generaliser, Length) ==
  SubSeq(b, 1, p) \o Generaliser \o Spaces(Length - Len(Generaliser))
    \o SubSeq(b, p + Length + 1, Len(b))

\* b with, from offset p on, the first token at each place replaced and the
\* scan going on right after it.
RECURSIVE TokensReplacedFrom(_, _, _)
TokensReplacedFrom(b, p, Config) ==
  IF p >= Len(b)
    THEN b
    ELSE IF TokensAt(b, p, Config) = {}
           THEN TokensReplacedFrom(b, p + 1, Config)
           ELSE TokensReplacedFrom(
                  TokenReplaced(
                    b, p,
                    Config.Generalises[
                      FirstToken(TokensAt(b, p, Config))[1]].Generaliser,
                    Len(Config.Generalises[
                          FirstToken(TokensAt(b, p, Config))[1]].Generalisees[
                            FirstToken(TokensAt(b, p, Config))[2]])),
                  p + Len(Config.Generalises[
                            FirstToken(TokensAt(b, p, Config))[1]].Generalisees[
                              FirstToken(TokensAt(b, p, Config))[2]]),
                  Config)

\* C23: ScCleanseGeneralisees overwrites, at each place it scans, the first
\* generalisee that matches there (groups in profile order, generalisees of
\* a group in profile order) with the generaliser of its group and spaces up
\* to the length of the generalisee, and goes on right after the token; the
\* count of bytes left never goes below 0 and the buffer keeps its length.
C23_FirstGeneraliseeReplaced ==
  AfterGeneralisees =>
    /\ Recleansed.AssertOk
    /\ Recleansed.BufferLength = 0
    /\ Recleansed.Pos = Len(Input)
    /\ Len(Recleansed.Buffer) = Len(Input)
    /\ Recleansed.Buffer =
         TokensReplacedFrom(Cleansed.Buffer, 0, gScCleanseConfigs[FileType])

\* "float32" and its prefix "float" both match at the start; the first in
\* the profile is taken.
C23_Witness ==
  /\ pc = "pass_whitespaces"
  /\ FileType = ScCleanseConfigTypeFSharp
  /\ Input = Chars("float32")
  /\ Recleansed.Buffer = Chars("int") \o Spaces(4)

\* k <= Radius for a small k >= 0 and the value of the radius (a negative
\* representative is a radius of 2^64 - k).
WithinRadius(k, Radius) == Radius < 0 \/ k <= Radius

\* The target lines j with max(0, i - Radius) <= j and
\* j < min(NumLines2, i + Radius + 1), in the integers.
SwapWindow(i, NumLines2, Radius) ==
  {j \in 0..(NumLines2 - 1) :
     IF j <= i THEN WithinRadius(i - j, Radius)
               ELSE WithinRadius(j - i, Radius)}

\* The distance of anchor line i and target line j and the length of the
\* longer of the two.
LineDistance(Anchor, Target, i, j) ==
  Levenshtein(LineBytes(Anchor, Anchor.LinesInfo, i),
              LineBytes(Target, Target.LinesInfo, j))

LineMatchLength(Anchor, Target, i, j) ==
  SC_MAX(Anchor.LinesInfo.Lines[i + 1].Length,
         Target.LinesInfo.Lines[j + 1].Length)

\* distance / length of candidate j is at most that of candidate k.
NoWorse(Anchor, Target, i, j, k) ==
  LineDistance(Anchor, Target, i, j) * LineMatchLength(Anchor, Target, i, k)
    <= LineDistance(Anchor, Target, i, k)
         * LineMatchLength(Anchor, Target, i, j)

\* The lowest line of the window W whose distance / length is the least.
LowestBest(Anchor, Target, i, W) ==
  CHOOSE j \in W :
    /\ \A k \in W : NoWorse(Anchor, Target, i, j, k)
    /\ \A k \in W : k < j => ~NoWorse(Anchor, Target, i, k, j)

\* The sums, over the first n anchor lines, of the distances and of the
\* match lengths of the lines chosen so.
RECURSIVE LowestBestDiff(_, _, _, _)
LowestBestDiff(Anchor, Target, Radius, n) ==
  IF n = 0
    THEN 0
    ELSE LowestBestDiff(Anchor, Target, Radius, n - 1)
           + LineDistance(Anchor, Target, n - 1,
               LowestBest(Anchor, Target, n - 1,
                 SwapWindow(n - 1, Target.LinesInfo.NumLines, Radius)))

RECURSIVE LowestBestLength(_, _, _, _)
LowestBestLength(Anchor, Target, Radius, n) ==
  IF n = 0
    THEN 0
    ELSE LowestBestLength(Anchor, Target, Radius, n - 1)
           + LineMatchLength(Anchor, Target, n - 1,
               LowestBest(Anchor, Target, n - 1,
                 SwapWindow(n - 1, Target.LinesInfo.NumLines, Radius)))

\* The window the code forms is the window of the integers, and is not
\* empty.
WindowExact(Anchor, Target, Radius) ==
  \A i \in 0..(Anchor.LinesInfo.NumLines - 1) :
    /\ SwapWindow(i, Target.LinesInfo.NumLines, Radius) # {}
    /\ SwapStartIndex(i, Radius) >= 0
    /\ SwapTopIndex(i, Target.LinesInfo.NumLines, Radius) >= 0
    /\ SwapWindow(i, Target.LinesInfo.NumLines, Radius)
         = SwapStartIndex(i, Radius)
             ..(SwapTopIndex(i, Target.LinesInfo.NumLines, Radius) - 1)

\* The totals of the call are the sums over the lines chosen so.
TotalsOfLowestBest(Score, Anchor, Target, Radius) ==
  /\ ~Score.Infinity
  /\ Score.AssertOk
  /\ Score.TotalDiff
       = LowestBestDiff(Anchor, Target, Radius, Anchor.LinesInfo.NumLines)
  /\ Score.TotalLength
       = LowestBestLength(Anchor, Target, Radius, Anchor.LinesInfo.NumLines)

Kept == (0..(NumFiles - 1)) \ Failed

\* The step of lines 143-155: it is taken with every worker of the loop of
\* lines 106-136 done, and what it leaves in Files[0..NumFiles) are the
\* entries of Kept, as they were, in rising order.
CompactionExact ==
  /\ \A k \in DOMAIN FileState : FileState[k] = "done"
  /\ \A k \in 0..(NumFiles - 1) :
       (k \in Failed) <=> (Files[k].Buffer.Ptr = "NULL")
  /\ NumFiles' = Cardinality(Kept)
  /\ \A n \in 0..(NumFiles' - 1) :
       /\ Files'[n] = Files[SortedFrom(Kept, 0)[n]]
       /\ Files'[n].Reserved = SortedFrom(Kept, 0)[n]
       /\ Files'[n].Buffer.Ptr = "heap"

\* C25: the serial compaction of main runs only after the parallel loop over
\* the files is over, and leaves in Files[0..NumFiles) exactly the files
\* whose read and cleanse succeeded, in their original order, each with its
\* original index in Reserved, whichever files failed: the first, the last,
\* neighbours, or all.
C25_CompactionKeepsSurvivors ==
  [][(pc = "files" /\ pc' = "pairs") => CompactionExact]_vars

\* Of four files the first two and the last failed; the third is the one
\* entry left and carries its index.
C25_Witness ==
  /\ pc = "pairs"
  /\ argc = 5
  /\ Failed = {0, 1, 3}
  /\ NumFiles = 1
  /\ Files[0].Reserved = 2
  /\ Files[0].Buffer.Ptr = "heap"

\* All files failed: nothing is left.
AllFilesFailed ==
  /\ pc = "pairs"
  /\ argc = 5
  /\ Failed = 0..3
  /\ NumFiles = 0

\* x * (x + 1) is below 2^32, so that the unsigned int product of
\* SC_GAUSS_SUM(x) does not wrap: its half is at most INT32_MAX.  Written
\* with a quotient, as the product need not fit the integers of TLC.
GaussSumFits(x) ==
  IF x % 2 = 0
    THEN x \div 2 <= INT32_MAX \div (x + 1)
    ELSE x <= INT32_MAX \div ((x + 1) \div 2)

\* C26: for every number of files from 2 to SC_MAX_NUM_FILES the unsigned
\* int products of SC_GAUSS_SUM(NumFiles - 1) and SC_GAUSS_SUM(FilesLeft) do
\* not wrap, File1DistStart is N(N-1)/2 - (N-1-i)(N-i)/2 exactly, and every
\* index into Ratings is one of its slots (the rank of the pair, which is
\* below the number of pairs).
C26_GaussSumsDoNotWrap ==
  (pc = "emit" /\ NumFiles <= SC_MAX_NUM_FILES
     /\ File1Index < NumFiles /\ File2Index < NumFiles) =>
    /\ GaussSumFits(NumFilesMinus1(NumFiles))
    /\ GaussSumFits(FilesLeft(NumFiles, File1Index))
    /\ File1DistStart(NumFiles, File1Index)
         = PairRank(NumFiles, File1Index, File1Index + 1)
    /\ PairSlot(NumFiles, File1Index, File2Index - (File1Index + 1))
         = PairRank(NumFiles, File1Index, File2Index)

(***************************************************************************)
(* AnchorSpec: one call of ScLevenshteinSwap, ScCommon.c lines 64-174, an  *)
(* anchor line at a time.  File1 is the anchor and File2 the target after  *)
(* lines 64-72; Score12 holds the running totals (Line1Index, TotalDiff,   *)
(* TotalLength, the scratch row, whether line 164 returned and whether the *)
(* assertions held), Score21 what the call returned.                       *)
(***************************************************************************)
AnchorInit ==
  /\ pc = "anchor_lines"
  /\ \E b1 \in SwapBuffers, b2 \in SwapBuffers :
       /\ File1 = SwapOrder(CleansedFile(b1), CleansedFile(b2)).Anchor
       /\ File2 = SwapOrder(CleansedFile(b1), CleansedFile(b2)).Target
  /\ NumLinesSwap \in SwapRadii
  /\ Score12 = [Line1Index |-> 0, TotalDiff |-> 0, TotalLength |-> 0,
                MatrixScratch |-> EmptyRow, Overflow |-> FALSE,
                AssertOk |-> TRUE]
  /\ Score21 = None
  /\ DistIdle
  /\ CleanseIdle
  /\ IndexIdle
  /\ MainIdle

\* One pass of the loop of lines 82-171.
AnchorLine ==
  /\ pc = "anchor_lines"
  /\ ~Score12.Overflow
  /\ Score12.Line1Index < File1.LinesInfo.NumLines
  /\ Score12' = SwapLine(Score12, File1, File2, NumLinesSwap)
  /\ UNCHANGED <<pc, File1, File2, NumLinesSwap, Score21, distVars,
                 cleanseVars, indexVars, mainVars>>

\* The return of line 164 or of line 174.
AnchorReturn ==
  /\ pc = "anchor_lines"
  /\ Score12.Overflow \/ Score12.Line1Index >= File1.LinesInfo.NumLines
  /\ Score21' = SwapScore(Score12)
  /\ pc' = "anchor_returned"
  /\ UNCHANGED <<File1, File2, NumLinesSwap, Score12, distVars, cleanseVars,
                 indexVars, mainVars>>

AnchorNext == AnchorLine \/ AnchorReturn

AnchorSpec == AnchorInit /\ [][AnchorNext]_vars

\* TotalDiff <= TotalLength on size_t.
DiffWithinLength(acc) == ~SizeLess(acc.TotalLength, acc.TotalDiff)

\* Lines 162-171 from totals k and k + d below SIZE_MAX, for a best match of
\* distance BestMatch and length MatchLength.
AccumulatedNearTop(k, d, BestMatch, MatchLength) ==
  SwapAccumulate([Line1Index |-> 1, TotalDiff |-> (SIZE_MAX - k) - d,
                  TotalLength |-> SIZE_MAX - k, MatrixScratch |-> EmptyRow,
                  Overflow |-> FALSE, AssertOk |-> TRUE],
                 [Line2Index |-> 1, BestScore |-> Quotient(0, 1),
                  BestMatch |-> BestMatch, MatchLength |-> MatchLength,
                  MatrixScratch |-> EmptyRow, AssertOk |-> TRUE])

\* The addition of line 170 keeps TotalDiff <= TotalLength without a wrap
\* whenever line 162 did not report an overflow, also next to SIZE_MAX.
NoWrapNearTop ==
  \A k \in 0..(2 * MaxFileLen), d \in 0..MaxFileLen,
     MatchLength \in 1..MaxFileLen :
    \A BestMatch \in 0..MatchLength :
      \/ AccumulatedNearTop(k, d, BestMatch, MatchLength).Overflow
      \/ /\ AccumulatedNearTop(k, d, BestMatch, MatchLength).AssertOk
         /\ DiffWithinLength(AccumulatedNearTop(k, d, BestMatch, MatchLength))

\* C27: in ScLevenshteinSwap, after each anchor line, TotalDiff <=
\* TotalLength and TotalLength > 0 hold and the addition to TotalDiff has
\* not wrapped (the assertion TotalDiff >= BestMatch does not fail); so
\* every score that is not the sentinel is in [0, 1].
C27_DiffWithinLength ==
  /\ (pc \in {"anchor_lines", "anchor_returned"} /\ Score12.Line1Index > 0) =>
       /\ Score12.AssertOk
       /\ ~Score12.Overflow
       /\ Score12.TotalLength > 0
       /\ Score12.TotalDiff >= 0
       /\ Score12.TotalDiff <= Score12.TotalLength
  /\ (pc = "anchor_returned" /\ ~Score21.Infinity) =>
       /\ Score21.TotalLength > 0
       /\ Score21.TotalDiff >= 0
       /\ Score21.TotalDiff <= Score21.TotalLength
  /\ NoWrapNearTop

\* The first of two anchor lines has been added, its best match at a
\* distance above 0.
C27_Witness ==
  /\ pc = "anchor_lines"
  /\ File1.LinesInfo.NumLines = 2
  /\ Score12.Line1Index = 1
  /\ Score12.TotalDiff > 0
  /\ Score12.TotalDiff < Score12.TotalLength

(***************************************************************************)
(* ZeroSpec: ScReadCleansedFile, ScCommon.c lines 223-296, with ScReadFile *)
(* (ScFileIo.c lines 29-99) and the preconditions its callees assert, on   *)
(* files that may hold no byte.  Input is the name and what the file       *)
(* holds; Cleansed is what ScReadFile returned, whether every assertion    *)
(* held and what ScReadCleansedFile returned.  pc = "abort": an assertion  *)
(* failed.                                                                 *)
(***************************************************************************)
SC_MAX_FILE_SIZE == 1048576

\* What malloc may return: for a size of 0 both are allowed to the
\* implementation, for another size NULL is the failure.
MallocOutcomes == {"NULL", "heap"}

\* ScFileIo.c lines 29-99.  EnvOk: fopen, fseek, ftell, fread and fclose
\* succeeded; Malloc: what malloc(BinFileSize) of line 68 returned.
ScReadFile(Content, MaxFileSize, EnvOk, Malloc) ==
  IF ~EnvOk \/ Len(Content) > MaxFileSize \/ Malloc = "NULL"
    THEN [Ptr |-> "NULL", Bytes |-> <<>>, FileSize |-> 0]
    ELSE [Ptr |-> Malloc, Bytes |-> Content, FileSize |-> Len(Content)]

\* ScCommon.c line 184, ScCleanseInput.c lines 436 and 349: the length
\* handed on is asserted to be above 0 before a byte is looked at.
LengthAsserted(Length) == Length > 0

\* ScCommon.c lines 283-295 for what ScReadFile returned.
ReadCleansedAsserted(Read, Config, Allocated) ==
  IF Read.Ptr = "NULL"
    THEN [Read |-> Read, AssertOk |-> TRUE, Result |-> FALSE]
    ELSE IF ~LengthAsserted(Read.FileSize)
           THEN [Read |-> Read, AssertOk |-> FALSE, Result |-> FALSE]
           ELSE [Read     |-> Read,
                 AssertOk |-> FileInitialised(
                                ScCleanseInput(Read.Bytes, Read.FileSize,
                                               Config),
                                Allocated).AssertOk,
                 Result   |-> FileInitialised(
                                ScCleanseInput(Read.Bytes, Read.FileSize,
                                               Config),
                                Allocated).Result]

\* What the files hold: nothing, a blank, and two statements.
ZeroContents == { <<>>, <<SPACE>>, Chars("xy"), Chars("x;") \o <<NL>> }

ZeroInit ==
  /\ pc = "zero_file"
  /\ FileType = ScCleanseConfigTypeMax
  /\ Input \in [FileName : ReadNames, Content : ZeroContents]
  /\ Cleansed = None
  /\ Recleansed = None
  /\ DistIdle
  /\ SwapIdle
  /\ IndexIdle
  /\ MainIdle

ZeroReadTo(r) ==
  /\ Cleansed' = r
  /\ pc' = IF r.AssertOk THEN "zero_done" ELSE "abort"

ZeroRead ==
  /\ pc = "zero_file"
  /\ \E EnvOk \in BOOLEAN, Malloc \in MallocOutcomes, Allocated \in BOOLEAN :
       ZeroReadTo(
         ReadCleansedAsserted(
           ScReadFile(Input.Content, SC_MAX_FILE_SIZE, EnvOk, Malloc),
           gScCleanseConfigs[DetectFileType(ScGetFileExtension(
                                              Input.FileName))],
           Allocated))
  /\ UNCHANGED <<FileType, Input, Recleansed, distVars, swapVars, indexVars,
                 mainVars>>

ZeroNext == ZeroRead

ZeroSpec == ZeroInit /\ [][ZeroNext]_vars

\* C30: a file of no bytes is a content error that is not fatal: whenever
\* ScReadFile returns a buffer of length 0, the preconditions Length > 0
\* asserted by ScInitialiseCleanseFile, ScCleanseInput and
\* ScCleanseRemoveSpaces hold in ScReadCleansedFile (no assertion fails, no
\* byte of the empty buffer is read) and false is returned, which leaves the
\* file out of every comparison.
C30_ZeroByteFileIsContentError ==
  (pc \in {"zero_done", "abort"}
     /\ Cleansed.Read.Ptr = "heap" /\ Cleansed.Read.FileSize = 0) =>
    /\ Cleansed.AssertOk
    /\ pc = "zero_done"
    /\ ~Cleansed.Result

(***************************************************************************)
(* FreeSpec: main from line 105 on in a build whose SC_MAX_LINE_LENGTH is  *)
(* LineLimit, so that a file can fail for a line over the limit (its line  *)
(* table is freed at ScCommon.c line 216), as well as for not being read,  *)
(* for cleansing to nothing and for its line table not being allocated.    *)
(***************************************************************************)
\* What a file may hold: lines up to the limit, a line over it, a blank.
FreeContents == { Chars("xy"), Chars("xyz"), <<SPACE>> }

FreeFileReads ==
  \E FileIndex \in DOMAIN FileState :
    ReadFileFrom(FileIndex, FreeContents, LineLimit)

FreeNext ==
  \/ FreeFileReads
  \/ FileWorkerMarks
  \/ Compact
  \/ PairWorkers
  \/ EmitBegin
  \/ Emit
  \/ EmitAnchor
  \/ EmitFinish
  \/ Exit

FreeSpec == MainInit /\ [][FreeNext]_vars

\* Nothing has been freed twice, freed without being allocated, or used
\* after it was freed.
NoMisuse(h) ==
  /\ h.Buffer \in {"none", "live", "freed"}
  /\ h.LinesInfo \in {"none", "live", "freed"}

\* Whatever was allocated has been freed.
Released(h) ==
  /\ h.Buffer \in {"none", "freed"}
  /\ h.LinesInfo \in {"none", "freed"}

\* Every pair a file is in has been scored and printed.
PairsOfFileOut(k) ==
  \A p \in {q \in Survivors \X Survivors : q[1] < q[2] /\ k \in {q[1], q[2]}} :
    /\ p \in PairsEmitted
    /\ \E e \in PairLog :
         /\ Files[e.File1Index].Reserved = p[1]
         /\ Files[e.File1Index + 1 + e.File2Index].Reserved = p[2]
         /\ e.Slot \in DOMAIN Ratings

\* C28: on every run of main each file buffer and each line table is freed
\* exactly once and never used after it was freed: a file that failed has
\* its allocations released when ScReadCleansedFile returns and the final
\* loop does not touch them; the buffer and the line table of a file that
\* did not fail are live until every pair the file is in has been scored
\* and printed, and freed when main returns.
C28_FreedOnceAfterLastUse ==
  /\ \A k \in DOMAIN Heap : NoMisuse(Heap[k])
  /\ \A k \in Failed : Released(Heap[k])
  /\ \A k \in DOMAIN Heap \ Failed :
       /\ (FileState[k] # "read" /\ pc # "exit") =>
            Heap[k] = [Buffer |-> "live", LinesInfo |-> "live"]
       /\ Heap[k].Buffer = "freed" \/ Heap[k].LinesInfo = "freed" =>
            PairsOfFileOut(k)
  /\ pc = "exit" => \A k \in DOMAIN Heap : Released(Heap[k])

\* Four files: the first had a line over the limit (its table was made and
\* freed), the second cleansed to nothing, the other two were compared; all
\* is freed at the return.
C28_Witness ==
  /\ pc = "exit"
  /\ argc = 5
  /\ Failed = {0, 1}
  /\ Heap[0] = [Buffer |-> "freed", LinesInfo |-> "freed"]
  /\ Heap[1] = [Buffer |-> "freed", LinesInfo |-> "none"]
  /\ Heap[2] = [Buffer |-> "freed", LinesInfo |-> "freed"]
  /\ Heap[3] = [Buffer |-> "freed", LinesInfo |-> "freed"]
  /\ Len(Output) = 1


(***************************************************************************)
(* The pair loops of ScMain.c lines 157-215 as concurrent calls of         *)
(* ScLevenshteinSwap.  The array mScLevenshteinMatrixInit and the          *)
(* MatrixScratch arrays are memory the calls read and write; a step of a   *)
(* call is one row of ScLevenshteinDistance (or the read of its result at  *)
(* line 103), with the call's own code up to its next row run along.       *)
(***************************************************************************)
\* ScCommon.c line 28: a static array starts zeroed.
MatrixInitStatic == [k \in 0..(SC_MAX_LINE_LENGTH - 1) |-> 0]

\* Cleansed files of one or two lines.
RowBuffers ==
  { Chars("ab"), Chars("ba"), Chars("bb"), <<"a", NL, "b", "a">> }

\* The files the pair loops run on.
RowFiles ==
  { <<CleansedFile(b0), CleansedFile(b1), CleansedFile(b2)>> :
      b0 \in RowBuffers, b1 \in RowBuffers, b2 \in RowBuffers }

\* ScMain.c lines 186-190: the files of iteration it, the first by
\* File1Index, the second by File2Index from File1Index + 1 on.
RowPair(it) ==
  SwapOrder(Files[it[1] + 1], Files[it[1] + 1 + it[2] + 1])

\* Variant: one scratch row for every call.
ScratchRowOf_Shared(it) == <<0, 0>>

\* ScCommon.c line 76: MatrixScratch is an array on the stack of the call.
ScratchRowOf(it) == it

\* ScCommon.c lines 87-116 and 158-174, from pcw = "line" or "candidate" up
\* to the next call of ScLevenshteinDistance or the return.
RECURSIVE CallAdvance(_, _)
CallAdvance(c, P) ==
  IF c.pcw = "line"
    THEN IF ~c.acc.Overflow /\ c.acc.Line1Index < P.Anchor.LinesInfo.NumLines
           THEN CallAdvance(
                  [c EXCEPT
                     !.pcw  = "candidate",
                     !.best =
                       [Line2Index    |-> SwapStartIndex(c.acc.Line1Index,
                                                         SC_NUM_LINES_SWAP),
                        BestScore     |-> DBL_MAX,
                        BestMatch     |-> SIZE_MAX,
                        MatchLength   |-> 1,
                        MatrixScratch |-> EmptyRow,
                        AssertOk      |-> /\ c.acc.AssertOk
                                          /\ P.Target.LinesInfo.NumLines
                                               >= P.Anchor.LinesInfo.NumLines]],
                  P)
           ELSE [c EXCEPT !.pcw = "returned"]
  ELSE IF c.pcw = "candidate"
    THEN IF c.best.Line2Index
              < SwapTopIndex(c.acc.Line1Index, P.Target.LinesInfo.NumLines,
                             SC_NUM_LINES_SWAP)
           THEN [c EXCEPT
                   !.pcw = "rows",
                   !.lev = [Top |-> EmptyRow, Aliased |-> FALSE,
                            Scratch |-> EmptyRow,
                            RowIndexMinus1 |-> 0, ColumnIndexMinus1 |-> 0,
                            TopLeftValue |-> 0, LeftValue |-> 0,
                            AssertOk |-> TRUE]]
           ELSE CallAdvance([c EXCEPT !.pcw = "line",
                                      !.acc = SwapAccumulate(c.acc, c.best)],
                            P)
  ELSE c

\* ScCommon.c lines 76-86: the call starts with its totals at 0.
CallStart(P) ==
  CallAdvance([pcw  |-> "line",
               acc  |-> [Line1Index |-> 0, TotalDiff |-> 0, TotalLength |-> 0,
                         MatrixScratch |-> EmptyRow, Overflow |-> FALSE,
                         AssertOk |-> TRUE],
               best |-> None,
               lev  |-> None],
              P)

\* The two lines the call compares.
CallLine1(c, P) == LineBytes(P.Anchor, P.Anchor.LinesInfo, c.acc.Line1Index)

CallLine2(c, P) == LineBytes(P.Target, P.Target.LinesInfo, c.best.Line2Index)

\* ScDistances.c lines 30-99 on the memory as it is now: the row reads
\* MatrixTop (the shared array for the first row, the scratch row after) and
\* writes the scratch row.
RowOnMemory(c, P, Top, Scratch) ==
  LevRow([c.lev EXCEPT !.Top = Top, !.Scratch = Scratch],
         CallLine1(c, P), CallLine2(c, P))

\* ScDistances.c line 103 on the memory as it is now, and ScCommon.c lines
\* 139-156 with the value.
ResultFromMemory(c, P, Top, Scratch) ==
  SwapUpdate(c.best,
             [LevResult([c.lev EXCEPT !.Top = Top, !.Scratch = Scratch],
                        Len(CallLine2(c, P)))
                EXCEPT !.Scratch = EmptyRow],
             SC_MAX(Len(CallLine1(c, P)), Len(CallLine2(c, P))),
             P.Target.LinesInfo.NumLines)

RowInit ==
  /\ pc = "initialise"
  /\ Files \in RowFiles
  /\ MatrixInit = MatrixInitStatic
  /\ ScratchRows = <<>>
  /\ Calls = <<>>
  /\ Ratings = <<>>
  /\ Str1 = None /\ Str2 = None /\ Distance = None
  /\ argc = None /\ FileState = None /\ Failed = None /\ FilesResult = None
  /\ FlagWriters = None /\ FlagReads = None /\ PairLog = None
  /\ Output = None /\ Heap = None
  /\ SwapIdle
  /\ CleanseIdle
  /\ IndexIdle

\* ScMain.c line 157, ScCommon.c lines 34-43: every entry is written before
\* the parallel loops of lines 165-215 start.
SwapInitialise ==
  /\ pc = "initialise"
  /\ MatrixInit' = ScLevenshteinSwapInitialise
  /\ pc' = "pairs"
  /\ UNCHANGED <<Str1, Str2, Distance, ScratchRows, Calls, swapVars,
                 cleanseVars, indexVars, mainVars>>

\* ScMain.c lines 165-190: an iteration calls ScLevenshteinSwap, whose
\* scratch row holds nothing yet.
CallBegin(it) ==
  /\ pc = "pairs"
  /\ it \notin DOMAIN Calls
  /\ Calls' = (it :> CallStart(RowPair(it))) @@ Calls
  /\ ScratchRows' = IF ScratchRowOf(it) \in DOMAIN ScratchRows
                      THEN ScratchRows
                      ELSE (ScratchRowOf(it) :> EmptyRow) @@ ScratchRows
  /\ UNCHANGED <<pc, Str1, Str2, Distance, MatrixInit, swapVars, cleanseVars,
                 indexVars, mainVars>>

\* ScDistances.c lines 30-99: one row of the distance of the call.
CallRow(it) ==
  /\ pc = "pairs"
  /\ it \in DOMAIN Calls
  /\ Calls[it].pcw = "rows"
  /\ Calls[it].lev.RowIndexMinus1 < Len(CallLine1(Calls[it], RowPair(it)))
  /\ ScratchRows' =
       [ScratchRows EXCEPT ![ScratchRowOf(it)] =
          RowOnMemory(Calls[it], RowPair(it), MatrixInit, @).Scratch]
  /\ Calls' =
       [Calls EXCEPT ![it].lev =
          [RowOnMemory(Calls[it], RowPair(it), MatrixInit,
                       ScratchRows[ScratchRowOf(it)])
             EXCEPT !.Top = EmptyRow, !.Scratch = EmptyRow]]
  /\ UNCHANGED <<pc, Str1, Str2, Distance, MatrixInit, swapVars, cleanseVars,
                 indexVars, mainVars>>

\* ScDistances.c line 103 and ScCommon.c lines 139-174: the distance is read
\* from the row, the candidate settled and the call taken to its next
\* distance or its return.
CallResult(it) ==
  /\ pc = "pairs"
  /\ it \in DOMAIN Calls
  /\ Calls[it].pcw = "rows"
  /\ Calls[it].lev.RowIndexMinus1 >= Len(CallLine1(Calls[it], RowPair(it)))
  /\ Calls' =
       [Calls EXCEPT ![it] =
          CallAdvance([Calls[it] EXCEPT
                         !.pcw  = "candidate",
                         !.best = ResultFromMemory(
                                    Calls[it], RowPair(it), MatrixInit,
                                    ScratchRows[ScratchRowOf(it)])],
                      RowPair(it))]
  /\ UNCHANGED <<pc, Str1, Str2, Distance, MatrixInit, ScratchRows, swapVars,
                 cleanseVars, indexVars, mainVars>>

\* ScMain.c lines 186-205: the score the call returned is stored.
CallReturn(it) ==
  /\ pc = "pairs"
  /\ it \in DOMAIN Calls
  /\ Calls[it].pcw = "returned"
  /\ it \notin DOMAIN Ratings
  /\ Ratings' = (it :> SwapScore(Calls[it].acc)) @@ Ratings
  /\ UNCHANGED <<pc, distVars, swapVars, cleanseVars, indexVars, argc, Files,
                 FileState, Failed, FilesResult, FlagWriters, FlagReads,
                 PairLog, Output, Heap>>

RowNext ==
  \/ SwapInitialise
  \/ \E it \in PairIterations(Len(Files)) : CallBegin(it)
  \/ \E it \in PairIterations(Len(Files)) : CallRow(it)
  \/ \E it \in PairIterations(Len(Files)) : CallResult(it)
  \/ \E it \in PairIterations(Len(Files)) : CallReturn(it)

RowSpec == RowInit /\ [][RowNext]_vars

\* The longest line of a file.
LongestLine(F) ==
  CHOOSE n \in {F.LinesInfo.Lines[i].Length : i \in 1..F.LinesInfo.NumLines} :
    \A i \in 1..F.LinesInfo.NumLines : F.LinesInfo.Lines[i].Length <= n

\* The calls that write scratch row r.
CallsOnRow(r) == {it \in DOMAIN Calls : ScratchRowOf(it) = r}

\* C29: no call of ScLevenshteinSwap runs before mScLevenshteinMatrixInit
\* holds k + 1 in every entry k, and the array holds that ever after; a
\* scratch row is written only in its first Str2Length entries, the lines of
\* the call's target; and whatever the interleaving of the calls, the score a
\* pair's call returns is the score ScLevenshteinSwap gives for the pair when
\* it runs alone.
C29_ScoreAsInIsolation ==
  /\ pc = "initialise" => Calls = <<>> /\ Ratings = <<>>
  /\ pc = "pairs" =>
       /\ DOMAIN MatrixInit = 0..(SC_MAX_LINE_LENGTH - 1)
       /\ \A k \in DOMAIN MatrixInit : MatrixInit[k] = k + 1
  /\ \A r \in DOMAIN ScratchRows :
       \A it \in CallsOnRow(r) :
         \A k \in DOMAIN ScratchRows[r] :
           k < LongestLine(RowPair(it).Target)
  /\ \A it \in DOMAIN Ratings :
       Ratings[it] = ScLevenshteinSwap(Files[it[1] + 1],
                                       Files[it[1] + 1 + it[2] + 1],
                                       SC_NUM_LINES_SWAP)

\* A call has returned its score while the two other calls are each between
\* the two rows of a distance, all three on lines of two bytes.
C29_Witness ==
  /\ pc = "pairs"
  /\ Files[1].Buffer = <<"a", NL, "b", "a">>
  /\ Files[2].Buffer = Chars("ab")
  /\ Files[3].Buffer = Chars("bb")
  /\ <<1, 0>> \in DOMAIN Ratings
  /\ Ratings[<<1, 0>>].TotalDiff = 1
  /\ Ratings[<<1, 0>>].TotalLength = 2
  /\ DOMAIN Calls = PairIterations(Len(Files))
  /\ \A it \in {<<0, 0>>, <<0, 1>>} :
       /\ Calls[it].pcw = "rows"
       /\ Calls[it].best.Line2Index = 1
       /\ Calls[it].lev.RowIndexMinus1 = 1

=============================================================================
